---- MODULE Spec2Model ----
(***************************************************************************)
(* phytoDB: normalisation of water-quality analysis records (Naiades       *)
(* surface water, ADES groundwater) into point features restricted to      *)
(* departement 21, with unit normalisation, sanitary thresholds, usage     *)
(* metadata and exceedance computation (src/sig.py, src/thresholds.py,     *)
(* src/ppp_dict.py, src/utils.py).                                         *)
(*                                                                         *)
(* Python values are tagged records: None, str, int, float, bool, point    *)
(* geometry, dict.  Floats are exact decimals with mantissa in units of    *)
(* 1/Scale; a quotient of two floats is kept as a reduced fraction, tagged *)
(* "ratio".                                                                *)
(***************************************************************************)
EXTENDS Integers, Sequences, FiniteSets, TLC

\* ------------------------------------------------------------------------
\* Bounds of the model
\* ------------------------------------------------------------------------

\* number of analysis records handed to build_geojson_features in one run
MaxAnalyses == 1

\* ------------------------------------------------------------------------
\* Python values
\* ------------------------------------------------------------------------

\* decimal resolution of the modelled floats: 4 decimal places
Scale == 10 * 10 * 10 * 10

None == [t |-> "none"]

S(s) == [t |-> "str", v |-> s]

I(n) == [t |-> "int", v |-> n]

F(m) == [t |-> "float", v |-> m]

B(b) == [t |-> "bool", v |-> b]

D(f) == [t |-> "dict", v |-> f]

IsNone(x) == x.t = "none"

\* Python ==, for the value kinds of the model (int and float compare by value)
PyEq(a, b) ==
  IF a.t = b.t THEN a = b
  ELSE IF a.t = "int" /\ b.t = "float" THEN a.v * Scale = b.v
  ELSE IF a.t = "float" /\ b.t = "int" THEN a.v = b.v * Scale
  ELSE FALSE

\* Python truthiness
Truthy(x) ==
  CASE x.t = "none" -> FALSE
    [] x.t = "str" -> x.v # ""
    [] x.t = "int" -> x.v # 0
    [] x.t = "float" -> x.v # 0
    [] x.t = "ratio" -> x.num # 0
    [] x.t = "bool" -> x.v
    [] x.t = "dict" -> DOMAIN x.v # {}
    [] OTHER -> TRUE

\* Python `a or b`
PyOr(a, b) == IF Truthy(a) THEN a ELSE b

\* dict.get(k) with the default None
Get(d, k) == IF k \in DOMAIN d THEN d[k] ELSE None

\* d[k] = v on a dict held as a function
DictSet(d, k, v) == [x \in DOMAIN d \cup {k} |-> IF x = k THEN v ELSE d[x]]

EmptyDict == [x \in {} |-> None]

\* ------------------------------------------------------------------------
\* Strings
\* ------------------------------------------------------------------------

Ch(s, i) == SubSeq(s, i, i)

IsSpace(c) == c \in {" ", "\t"}

RECURSIVE LStrip(_)
LStrip(s) ==
  IF s # "" /\ IsSpace(Ch(s, 1)) THEN LStrip(SubSeq(s, 2, Len(s))) ELSE s

RECURSIVE RStrip(_)
RStrip(s) ==
  IF s # "" /\ IsSpace(Ch(s, Len(s))) THEN RStrip(SubSeq(s, 1, Len(s) - 1)) ELSE s

\* str.strip()
Strip(s) == RStrip(LStrip(s))

\* str.startswith(p)
StartsWith(s, p) == Len(s) >= Len(p) /\ SubSeq(s, 1, Len(p)) = p

\* `sub in s`
Contains(s, sub) ==
  \E i \in 1..(Len(s) - Len(sub) + 1) : SubSeq(s, i, i + Len(sub) - 1) = sub

\* s[:n]
Prefix(s, n) == SubSeq(s, 1, IF Len(s) < n THEN Len(s) ELSE n)

\* str.replace(old, new) for a one-character old
RECURSIVE Replace(_, _, _)
Replace(s, old, new) ==
  IF s = "" THEN ""
  ELSE (IF Ch(s, 1) = old THEN new ELSE Ch(s, 1)) \o Replace(SubSeq(s, 2, Len(s)), old, new)

Upper == "ABCDEFGHIJKLMNOPQRSTUVWXYZÉ"

Lowers == "abcdefghijklmnopqrstuvwxyzé"

LowerChar(c) ==
  IF \E i \in 1..Len(Upper) : Ch(Upper, i) = c
  THEN Ch(Lowers, CHOOSE i \in 1..Len(Upper) : Ch(Upper, i) = c)
  ELSE c

\* str.lower()
RECURSIVE Lower(_)
Lower(s) == IF s = "" THEN "" ELSE LowerChar(Ch(s, 1)) \o Lower(SubSeq(s, 2, Len(s)))

Digits == "0123456789"

IsDigit(c) == \E i \in 1..10 : Ch(Digits, i) = c

DigitVal(c) == (CHOOSE i \in 1..10 : Ch(Digits, i) = c) - 1

AllDigits(s) == \A i \in 1..Len(s) : IsDigit(Ch(s, i))

RECURSIVE DigitsToInt(_)
DigitsToInt(s) ==
  IF s = "" THEN 0
  ELSE DigitsToInt(SubSeq(s, 1, Len(s) - 1)) * 10 + DigitVal(Ch(s, Len(s)))

RECURSIVE NatToStr(_)
NatToStr(n) ==
  IF n < 10 THEN Ch(Digits, n + 1)
  ELSE NatToStr(n \div 10) \o Ch(Digits, (n % 10) + 1)

\* str(int)
IntToStr(n) == IF n < 0 THEN "-" \o NatToStr(0 - n) ELSE NatToStr(n)

\* the fractional digits of a float's repr: trailing zeros dropped, one kept
RECURSIVE FracDigits(_, _)
FracDigits(m, width) ==
  IF width = 1 THEN NatToStr(m)
  ELSE IF m % 10 = 0 THEN FracDigits(m \div 10, width - 1)
  ELSE (IF width > Len(NatToStr(m))
        THEN SubSeq("0000", 1, width - Len(NatToStr(m))) ELSE "") \o NatToStr(m)

\* str(float) / f"{x}" of a float, for the decimals of the model
FloatToStr(m) ==
  LET a == IF m < 0 THEN 0 - m ELSE m
  IN (IF m < 0 THEN "-" ELSE "") \o NatToStr(a \div Scale) \o "."
       \o FracDigits(a % Scale, 4)

\* str(x)
PyStr(x) ==
  CASE x.t = "none" -> "None"
    [] x.t = "str" -> x.v
    [] x.t = "int" -> IntToStr(x.v)
    [] x.t = "float" -> FloatToStr(x.v)
    [] x.t = "bool" -> IF x.v THEN "True" ELSE "False"

\* the digits of a float literal after its sign
Unsigned(s) == IF s # "" /\ Ch(s, 1) \in {"-", "+"} THEN SubSeq(s, 2, Len(s)) ELSE s

\* position of the first decimal point, Len + 1 when there is none
DotPos(body) ==
  IF \E i \in 1..Len(body) : Ch(body, i) = "."
  THEN CHOOSE i \in 1..Len(body) :
         Ch(body, i) = "." /\ \A j \in 1..(i - 1) : Ch(body, j) # "."
  ELSE Len(body) + 1

\* digits with at most one point, split at the point.  Digits after the 4th
\* decimal are not representable and are cut; the inputs carry at most 4.
ParseUnsigned(body, dot) ==
  LET ip == SubSeq(body, 1, dot - 1)
      fp == SubSeq(body, dot + 1, Len(body))
  IN IF AllDigits(ip) /\ AllDigits(fp) /\ Len(ip) + Len(fp) > 0
     THEN [ok |-> TRUE, v |-> DigitsToInt(ip) * Scale + DigitsToInt(SubSeq(fp \o "0000", 1, 4))]
     ELSE [ok |-> FALSE]

Signed(neg, r) == IF r.ok /\ neg THEN [ok |-> TRUE, v |-> 0 - r.v] ELSE r

\* float(str): optional blanks, optional sign, digits with at most one point.
\* ok = FALSE stands for ValueError.
ParseFloat(s0) ==
  Signed(Strip(s0) # "" /\ Ch(Strip(s0), 1) = "-",
         ParseUnsigned(Unsigned(Strip(s0)), DotPos(Unsigned(Strip(s0)))))

\* float(x) of a non-None value; ok = FALSE stands for the exception
PyFloat(x) ==
  CASE x.t = "str" -> ParseFloat(x.v)
    [] x.t = "int" -> [ok |-> TRUE, v |-> x.v * Scale]
    [] x.t = "float" -> [ok |-> TRUE, v |-> x.v]
    [] x.t = "bool" -> [ok |-> TRUE, v |-> IF x.v THEN Scale ELSE 0]
    [] OTHER -> [ok |-> FALSE]

Abs(n) == IF n < 0 THEN 0 - n ELSE n

RECURSIVE Gcd(_, _)
Gcd(a, b) == IF b = 0 THEN a ELSE Gcd(b, a % b)

\* the float a / b (b > 0) as a reduced fraction
Q(a, b) ==
  LET g == Gcd(Abs(a), b)
  IN [t |-> "ratio", num |-> a \div g, den |-> b \div g]

\* ------------------------------------------------------------------------
\* Sanitary thresholds (src/thresholds.py)
\* ------------------------------------------------------------------------

\* 0.1 ug/L, the generic limit for one pesticide
DEFAULT_SANITAIRE_PPP_UGL == Scale \div 10

\* one data row of the thresholds CSV folded into the table
ThresholdRow(thresholds, row) ==
  LET code == Strip(PyStr(PyOr(Get(row, "code_parametre"), S(""))))
      val == Strip(PyStr(PyOr(Get(row, "seuil_ugl"), S(""))))
  IN IF code = "" \/ val = "" THEN thresholds
     ELSE IF ParseFloat(val).ok
          THEN DictSet(thresholds, code, F(ParseFloat(val).v))
          ELSE thresholds

RECURSIVE ThresholdRows(_, _)
ThresholdRows(thresholds, rows) ==
  IF rows = <<>> THEN thresholds
  ELSE ThresholdRows(ThresholdRow(thresholds, Head(rows)), Tail(rows))

\* _load_thresholds: the memoized table, else the table read from the file
\* (no file, or any exception while reading it: the empty table)
LoadThresholds(cache, file) ==
  IF ~IsNone(cache) THEN cache.v
  ELSE IF file.exists /\ file.readable THEN ThresholdRows(EmptyDict, file.rows)
  ELSE EmptyDict

\* variant: the table is searched with the code as given, not trimmed
SeuilSanitaireDe_untrimmed(code_parametre, thresholds) ==
  IF ~IsNone(code_parametre) /\ PyStr(code_parametre) \in DOMAIN thresholds
  THEN thresholds[PyStr(code_parametre)]
  ELSE F(DEFAULT_SANITAIRE_PPP_UGL)

\* seuil_sanitaire_ugL on the loaded table
SeuilSanitaireDe(code_parametre, thresholds) ==
  IF ~IsNone(code_parametre) /\ Strip(PyStr(code_parametre)) \in DOMAIN thresholds
  THEN thresholds[Strip(PyStr(code_parametre))]
  ELSE F(DEFAULT_SANITAIRE_PPP_UGL)

seuil_sanitaire_ugL(code_parametre, cache, file) ==
  SeuilSanitaireDe(code_parametre, LoadThresholds(cache, file))

\* ------------------------------------------------------------------------
\* Manual usage dictionary (src/ppp_dict.py)
\* ------------------------------------------------------------------------

KeyColumns == {"code_parametre", "Code_parametre", "cas", "CAS"}

\* str.strip of a cell, "" for a missing cell
Cell(row, k) == Strip(PyOr(Get(row, k), S("")).v)

\* every non-empty column of the row except the key columns
RowMeta(row) ==
  [k \in {c \in DOMAIN row \ KeyColumns : ~IsNone(row[c]) /\ Strip(row[c].v) # ""}
     |-> S(Strip(row[k].v))]

\* one data row of the usages CSV folded into (by_code, by_cas)
UsageRow(tabs, row) ==
  LET code_raw == PyOr(PyOr(Get(row, "code_parametre"), Get(row, "Code_parametre")), S(""))
      cas_raw == PyOr(PyOr(Get(row, "cas"), Get(row, "CAS")), S(""))
      meta0 == RowMeta(row)
      usage == PyOr(PyOr(Get(meta0, "ppp_usage"), S(Cell(row, "ppp_usage"))), None)
      usages_typiques ==
        PyOr(PyOr(Get(meta0, "ppp_usages_typiques"), S(Cell(row, "ppp_usages_typiques"))), None)
      meta1 == IF Truthy(usage) THEN DictSet(meta0, "ppp_usage", usage) ELSE meta0
      meta == IF Truthy(usages_typiques)
              THEN DictSet(meta1, "ppp_usages_typiques", usages_typiques) ELSE meta1
      code == Strip(PyStr(code_raw))
      cas == Strip(PyStr(cas_raw))
  IN IF ~Truthy(usage) /\ ~Truthy(usages_typiques) /\ DOMAIN meta0 = {} THEN tabs
     ELSE [by_code |-> IF code # "" THEN DictSet(tabs.by_code, code, D(meta)) ELSE tabs.by_code,
           by_cas |-> IF cas # "" THEN DictSet(tabs.by_cas, cas, D(meta)) ELSE tabs.by_cas]

RECURSIVE UsageRows(_, _)
UsageRows(tabs, rows) ==
  IF rows = <<>> THEN tabs ELSE UsageRows(UsageRow(tabs, Head(rows)), Tail(rows))

\* variant: the file is read again at every call
LoadPppUsages_always_reads(by_code, by_cas, file) ==
  IF ~file.exists THEN [by_code |-> EmptyDict, by_cas |-> EmptyDict]
  ELSE UsageRows([by_code |-> EmptyDict, by_cas |-> EmptyDict], file.rows)

\* _load_ppp_usages: the memoized pair, else the pair read from the file
\* (no file: two empty tables)
LoadPppUsages(by_code, by_cas, file) ==
  IF ~IsNone(by_code) /\ ~IsNone(by_cas) THEN [by_code |-> by_code.v, by_cas |-> by_cas.v]
  ELSE IF ~file.exists THEN [by_code |-> EmptyDict, by_cas |-> EmptyDict]
  ELSE UsageRows([by_code |-> EmptyDict, by_cas |-> EmptyDict], file.rows)

\* lookup_ppp_usage on the loaded pair: by code first, then by CAS
lookup_ppp_usage(code_parametre, cas_parametre, tabs) ==
  LET code == Strip(PyStr(code_parametre))
      cas == Strip(PyStr(cas_parametre))
  IN IF ~IsNone(code_parametre) /\ code # "" /\ code \in DOMAIN tabs.by_code
     THEN tabs.by_code[code]
     ELSE IF ~IsNone(cas_parametre) /\ cas # "" /\ cas \in DOMAIN tabs.by_cas
     THEN tabs.by_cas[cas]
     ELSE None

\* ------------------------------------------------------------------------
\* Substance catalog (src/sig.py, _load_c3po_substances)
\* ------------------------------------------------------------------------

RECURSIVE C3poRows(_, _)
C3poRows(out, apercu) ==
  IF apercu = <<>> THEN out
  ELSE LET sub == Head(apercu)
           raw == Get(sub, "code_parametre_sandre")
           code == Strip(PyStr(raw))
       IN C3poRows(IF IsNone(raw) \/ code = "" THEN out ELSE DictSet(out, code, D(sub)),
                   Tail(apercu))

\* _load_c3po_substances: no file or unreadable JSON gives the empty index
LoadC3poSubstances(file) ==
  IF file.exists /\ file.readable THEN C3poRows(EmptyDict, file.apercu) ELSE EmptyDict

\* ------------------------------------------------------------------------
\* Substance metadata (src/sig.py, _ppp_metadata_for_param)
\* ------------------------------------------------------------------------

\* the keyword heuristic over the lower-cased labels, first match wins
KeywordUsage(text_for_detection) ==
  IF Contains(text_for_detection, "herbicide") THEN S("herbicide")
  ELSE IF Contains(text_for_detection, "insecticide") THEN S("insecticide")
  ELSE IF Contains(text_for_detection, "fongicide") \/ Contains(text_for_detection, "fongicide")
       THEN S("fongicide")
  ELSE IF Contains(text_for_detection, "acaricide") THEN S("acaricide")
  ELSE IF Contains(text_for_detection, "rodenticide") THEN S("rodenticide")
  ELSE IF Contains(text_for_detection, "nematicide") \/ Contains(text_for_detection, "nématicide")
       THEN S("nématicide")
  ELSE IF Contains(text_for_detection, "pheromone") \/ Contains(text_for_detection, "phéromone")
       THEN S("phéromone de confusion sexuelle")
  ELSE None

\* the keyword chain of build_ppp_usages_from_c3po, over the lower-cased text
\* of the catalog labels, first match wins
C3poKeywordUsage(text) ==
  IF Contains(text, "herbicide") THEN S("herbicide")
  ELSE IF Contains(text, "insecticide") THEN S("insecticide")
  ELSE IF Contains(text, "fongicide") \/ Contains(text, "fungicide") THEN S("fongicide")
  ELSE IF Contains(text, "acaricide") THEN S("acaricide")
  ELSE IF Contains(text, "rodenticide") THEN S("rodenticide")
  ELSE IF Contains(text, "nematicide") \/ Contains(text, "nématicide") THEN S("nématicide")
  ELSE IF Contains(text, "pheromone") \/ Contains(text, "phéromone")
       THEN S("phéromone de confusion sexuelle")
  ELSE None

\* the generic typical-use text of a usage category
UsagesTypiquesDe(usage) ==
  CASE usage = S("herbicide") ->
         S("Désherbage des cultures, bords de champs, talus ou voiries.")
    [] usage = S("insecticide") ->
         S("Lutte contre les insectes ravageurs des cultures ou des stockages.")
    [] usage = S("fongicide") ->
         S("Protection des cultures contre les maladies fongiques (mildiou, oïdium, etc.).")
    [] usage = S("acaricide") ->
         S("Lutte contre les acariens sur les cultures.")
    [] usage = S("rodenticide") ->
         S("Lutte contre les rongeurs (bâtiments agricoles, stockages, etc.).")
    [] usage \in {S("nématicide"), S("nematicide")} ->
         S("Lutte contre les nématodes des cultures.")
    [] usage = S("phéromone de confusion sexuelle") ->
         S("Confusion sexuelle pour limiter les ravageurs, en viticulture ou arboriculture.")
    [] OTHER -> None

\* variant: the keyword heuristic is consulted before the dictionary
ResolveUsage_keyword_first(dict_meta, text_for_detection) ==
  LET usage == IF Truthy(dict_meta) THEN Get(dict_meta.v, "ppp_usage") ELSE None
  IN IF IsNone(KeywordUsage(text_for_detection)) THEN usage
     ELSE KeywordUsage(text_for_detection)

\* the usage category: the dictionary entry's, else the keyword heuristic
ResolveUsage(dict_meta, text_for_detection) ==
  LET usage == IF Truthy(dict_meta) THEN Get(dict_meta.v, "ppp_usage") ELSE None
  IN IF IsNone(usage) THEN KeywordUsage(text_for_detection) ELSE usage

\* the catalog entry of a parameter code, looked up by str(code)
C3poFor(code_parametre, c3po_by_param) ==
  IF ~IsNone(code_parametre) /\ PyStr(code_parametre) # ""
  THEN Get(c3po_by_param, PyStr(code_parametre))
  ELSE None

\* the display label: the record's label, else the first catalog label
BaseLabel(libelle_parametre, c3po) ==
  LET lib == IF ~IsNone(libelle_parametre) THEN PyStr(libelle_parametre) ELSE ""
  IN IF lib = "" /\ Truthy(c3po)
     THEN PyOr(PyOr(PyOr(PyOr(Get(c3po.v, "libelle_parametre_sandre"),
                              Get(c3po.v, "libelle_ephy")),
                         Get(c3po.v, "libelle_bnvd")),
                    Get(c3po.v, "libelle_agritox")),
               S("")).v
     ELSE lib

\* the lower-cased text the keywords are searched in
TextForDetection(base_label, c3po) ==
  Lower(IF Truthy(c3po)
        THEN base_label
               \o " " \o PyStr(PyOr(Get(c3po.v, "libelle_ephy"), S("")))
               \o " " \o PyStr(PyOr(Get(c3po.v, "libelle_bnvd"), S("")))
               \o " " \o PyStr(PyOr(Get(c3po.v, "libelle_agritox"), S("")))
        ELSE base_label)

\* str(x) if x is not None else ""
StrOrEmpty(x) == IF ~IsNone(x) THEN PyStr(x) ELSE ""

\* the typical uses: the dictionary entry's, else the generic text of the usage
UsagesTypiques(dict_meta, usage) ==
  LET typiques0 == IF Truthy(dict_meta) THEN Get(dict_meta.v, "ppp_usages_typiques") ELSE None
  IN IF IsNone(typiques0) /\ ~IsNone(usage) THEN UsagesTypiquesDe(usage) ELSE typiques0

Phrase(usage) ==
  IF Truthy(usage)
  THEN "Produit phytopharmaceutique de type " \o usage.v
         \o ", utilisé principalement pour la protection des cultures."
  ELSE "Substance phytopharmaceutique suivie dans les eaux ; consulter INRS et e-phy pour les usages détaillés."

Desc(phrase, base_label, lib, code) ==
  IF base_label # "" THEN phrase \o " (substance : " \o base_label \o ")."
  ELSE IF lib # "" THEN phrase \o " (paramètre : " \o lib \o ")."
  ELSE IF code # "" THEN phrase \o " (code paramètre Sandre " \o code \o ")."
  ELSE phrase

NomPpp(base_label, lib, code) ==
  IF base_label # "" THEN S(base_label)
  ELSE IF lib # "" THEN S(lib)
  ELSE IF code # "" THEN S("Paramètre " \o code)
  ELSE None

\* the dict returned, once the label, the dictionary entry and the usage are known
MetaForUsage(code, lib, base_label, dict_meta, usage) ==
  [ppp_nom |-> NomPpp(base_label, lib, code),
   ppp_usage |-> usage,
   ppp_usages_typiques |-> UsagesTypiques(dict_meta, usage),
   ppp_description |-> PyOr(S(Desc(Phrase(usage), base_label, lib, code)), None),
   ppp_url_inrs |-> S("https://www.inrs.fr/publications/bdd/fichetox.html"),
   ppp_url_ephy |-> S("https://ephy.anses.fr/")]

\* the metadata of a parameter whose catalog entry is c3po
MetaForEntry(code_parametre, libelle_parametre, c3po, tabs) ==
  LET base_label == BaseLabel(libelle_parametre, c3po)
      dict_meta ==
        lookup_ppp_usage(code_parametre,
                         IF Truthy(c3po) THEN Get(c3po.v, "cas_parametre_sandre") ELSE None,
                         tabs)
  IN MetaForUsage(StrOrEmpty(code_parametre), StrOrEmpty(libelle_parametre), base_label,
                  dict_meta, ResolveUsage(dict_meta, TextForDetection(base_label, c3po)))

ppp_metadata_for_param(code_parametre, libelle_parametre, c3po_by_param, tabs) ==
  MetaForEntry(code_parametre, libelle_parametre,
               C3poFor(code_parametre, c3po_by_param), tabs)

\* ------------------------------------------------------------------------
\* Measurement normalisation and exceedance (src/sig.py, src/utils.py)
\* ------------------------------------------------------------------------

\* the unit test of the conversion, on the unit after replace("µ", "u")
UnitFactor(unite_norm) ==
  IF unite_norm \in {"µg/L", "ug/L"} THEN 1
  ELSE IF unite_norm \in {"mg/L"} THEN 1000
  ELSE 0

\* the conversion block of feature_naiades_analyse
ConcNaiades(resultat, unite) ==
  IF ~IsNone(resultat) /\ ~IsNone(unite) /\ PyFloat(resultat).ok
  THEN LET val == PyFloat(resultat).v
           k == UnitFactor(Replace(PyStr(unite), "µ", "u"))
       IN IF k = 0 THEN None ELSE F(val * k)
  ELSE None

\* the conversion block of feature_ades_analyse
ConcAdes(resultat, unite) ==
  IF ~IsNone(resultat) /\ ~IsNone(unite) /\ PyFloat(resultat).ok
  THEN LET val == PyFloat(resultat).v
           k == UnitFactor(Replace(PyStr(unite), "µ", "u"))
       IN IF k = 0 THEN None ELSE F(val * k)
  ELSE None

\* utils.resultat_to_ugl
resultat_to_ugl(resultat, unite) ==
  IF IsNone(resultat) \/ IsNone(unite) THEN None
  ELSE IF ~PyFloat(resultat).ok THEN None
  ELSE LET val == PyFloat(resultat).v
           unite_norm == Replace(PyStr(unite), "µ", "u")
       IN IF unite_norm \in {"µg/L", "ug/L"} THEN F(val)
          ELSE IF unite_norm \in {"mg/L"} THEN F(val * 1000)
          ELSE None

\* variant: the exceedance test is ratio >= 1.0
Exceedance_inclusive(conc_ugl, seuil_ugl) ==
  IF Truthy(seuil_ugl) /\ seuil_ugl.v > 0
  THEN LET ratio == Q(conc_ugl.v, seuil_ugl.v)
       IN [ratio |-> ratio, depassement |-> B(ratio.num >= ratio.den)]
  ELSE [ratio |-> None, depassement |-> None]

\* ratio and exceedance of a known concentration against its threshold
Exceedance(conc_ugl, seuil_ugl) ==
  IF Truthy(seuil_ugl) /\ seuil_ugl.v > 0
  THEN LET ratio == Q(conc_ugl.v, seuil_ugl.v)
       IN [ratio |-> ratio, depassement |-> B(ratio.num > ratio.den)]
  ELSE [ratio |-> None, depassement |-> None]

\* the year of a sampling date
Annee(date_prel) == IF Truthy(date_prel) THEN S(Prefix(PyStr(date_prel), 4)) ELSE None

\* ------------------------------------------------------------------------
\* Normalised features (src/sig.py)
\* ------------------------------------------------------------------------

CODE_DEPARTEMENT_COTE_DOR == "21"

COLONNES_PPP_SIMPLE ==
  <<"ppp_nom", "ppp_usage", "ppp_taux_ugl", "ppp_depassement",
    "ppp_seuil_sanitaire_ugl", "ppp_ratio_seuil", "ppp_usages_typiques">>

COLONNES_BASE ==
  <<"libelle_station", "libelle_commune", "nom_commune", "nom_cours_eau",
    "nom_masse_deau", "code_station", "code_commune", "code_departement",
    "bss_id", "code_bss", "num_departement", "source", "type_donnee", "wkt_geom">>

COLONNES_PPP_IMPACT ==
  <<"libelle_parametre", "code_parametre", "resultat", "symbole_unite",
    "date_prelevement", "annee", "ppp_description", "ppp_url_inrs", "ppp_url_ephy">>

COLONNES_ATTR == COLONNES_PPP_SIMPLE \o COLONNES_BASE \o COLONNES_PPP_IMPACT

Range(q) == {q[i] : i \in 1..Len(q)}

\* a GeoJSON geometry object
Geom(type, coordinates) == [t |-> "geom", type |-> type, coordinates |-> coordinates]

Point(x, y) == Geom("Point", <<x, y>>)

geom_to_wkt(geom) ==
  IF ~Truthy(geom) \/ geom.type # "Point" THEN None
  ELSE IF Len(geom.coordinates) < 2 THEN None
  ELSE S("Point (" \o PyStr(geom.coordinates[1]) \o " " \o PyStr(geom.coordinates[2]) \o ")")

empty_attrs == [c \in Range(COLONNES_ATTR) |-> None]

\* variant: any numeric-department value present is accepted
in_cote_dor_num_present(code_dep, num_dep, code_insee) ==
  IF PyEq(code_dep, S("21")) \/ PyEq(code_dep, I(21)) THEN TRUE
  ELSE IF ~IsNone(num_dep) THEN TRUE
  ELSE IF Truthy(code_insee) /\ StartsWith(Strip(PyStr(code_insee)), "21") THEN TRUE
  ELSE FALSE

in_cote_dor(code_dep, num_dep, code_insee) ==
  IF PyEq(code_dep, S("21")) \/ PyEq(code_dep, I(21)) THEN TRUE
  ELSE IF PyEq(num_dep, S("21")) \/ PyEq(num_dep, I(21)) THEN TRUE
  ELSE IF Truthy(code_insee) /\ StartsWith(Strip(PyStr(code_insee)), "21") THEN TRUE
  ELSE FALSE

\* variant: the empty string is written like any other value
AttrValue_keep_empty(attrs, k, wkt) ==
  IF k \in DOMAIN attrs /\ ~IsNone(attrs[k]) THEN attrs[k]
  ELSE IF k = "wkt_geom" THEN wkt
  ELSE None

\* variant: only truthy values are written (0 and False are lost)
AttrValue_truthy(attrs, k, wkt) ==
  IF k \in DOMAIN attrs /\ Truthy(attrs[k]) THEN attrs[k]
  ELSE IF k = "wkt_geom" THEN wkt
  ELSE None

\* the attribute written for column k: the value of attrs when it is neither
\* None nor "", else what the column held before (wkt for wkt_geom, else None)
AttrValue(attrs, k, wkt) ==
  IF k \in DOMAIN attrs /\ ~IsNone(attrs[k]) /\ ~PyEq(attrs[k], S("")) THEN attrs[k]
  ELSE IF k = "wkt_geom" THEN wkt
  ELSE empty_attrs[k]

feature_normalized(geom, attrs) ==
  IF ~Truthy(geom) THEN None
  ELSE IF ~Truthy(geom_to_wkt(geom)) THEN None
  ELSE IF ~in_cote_dor(Get(attrs, "code_departement"), Get(attrs, "num_departement"),
                       PyOr(Get(attrs, "code_commune"), Get(attrs, "code_insee")))
       THEN None
  ELSE [t |-> "feature", type |-> "Feature", geometry |-> geom,
        properties |-> [k \in DOMAIN empty_attrs |-> AttrValue(attrs, k, geom_to_wkt(geom))]]

\* the locals of one call of a builder that returned before building attrs
EarlyReturn(schema, analyse, geom, raised) ==
  [schema |-> schema, analyse |-> analyse, geom |-> geom, raised |-> raised,
   built |-> FALSE, loads_seuils |-> FALSE, annee |-> None, meta_ppp |-> None,
   conc_ugl |-> None, seuil_ugl |-> None, ratio |-> None, depassement |-> None,
   attrs |-> EmptyDict, result |-> None]

\* variant: lon/lat are preferred to the embedded geometry
GeomNaiades_lonlat_first(analyse) ==
  IF ~IsNone(Get(analyse, "longitude")) /\ ~IsNone(Get(analyse, "latitude"))
  THEN Point(F(PyFloat(Get(analyse, "longitude")).v), F(PyFloat(Get(analyse, "latitude")).v))
  ELSE Get(analyse, "geometry")

\* the geometry a Naiades record is given: the embedded one, else lon/lat
GeomNaiades(analyse) ==
  IF Truthy(Get(analyse, "geometry")) THEN Get(analyse, "geometry")
  ELSE IF ~IsNone(Get(analyse, "longitude")) /\ ~IsNone(Get(analyse, "latitude"))
       THEN Point(F(PyFloat(Get(analyse, "longitude")).v), F(PyFloat(Get(analyse, "latitude")).v))
  ELSE Get(analyse, "geometry")

\* float(lon) or float(lat) raises
LonLatRaises(analyse) ==
  /\ ~IsNone(Get(analyse, "longitude")) /\ ~IsNone(Get(analyse, "latitude"))
  /\ ~PyFloat(Get(analyse, "longitude")).ok \/ ~PyFloat(Get(analyse, "latitude")).ok

\* the department test of feature_naiades_analyse on the record's own field
DeptNaiades(code_dep) == IsNone(code_dep) \/ PyEq(code_dep, S(CODE_DEPARTEMENT_COTE_DOR))

\* the concentration with its threshold, ratio and exceedance
Compared(conc_ugl, seuil_ugl) ==
  [conc_ugl |-> conc_ugl, seuil_ugl |-> seuil_ugl,
   ratio |-> Exceedance(conc_ugl, seuil_ugl).ratio,
   depassement |-> Exceedance(conc_ugl, seuil_ugl).depassement]

\* the impact block of a builder: the threshold is looked up, and the ratio
\* computed, only for a known concentration
Impact(conc_ugl, code_parametre, cache, file) ==
  IF ~IsNone(conc_ugl)
  THEN Compared(conc_ugl, seuil_sanitaire_ugL(code_parametre, cache, file))
  ELSE [conc_ugl |-> None, seuil_ugl |-> None, ratio |-> None, depassement |-> None]

\* the locals of one call of a builder that built attrs, and its result
Built(schema, analyse, geom, annee, meta_ppp, impact, attrs) ==
  [schema |-> schema, analyse |-> analyse, geom |-> geom, raised |-> FALSE,
   built |-> TRUE, loads_seuils |-> ~IsNone(impact.conc_ugl), annee |-> annee,
   meta_ppp |-> D(meta_ppp), conc_ugl |-> impact.conc_ugl, seuil_ugl |-> impact.seuil_ugl,
   ratio |-> impact.ratio, depassement |-> impact.depassement,
   attrs |-> attrs, result |-> feature_normalized(geom, attrs)]

\* the attrs dict of feature_naiades_analyse
NaiadesAttrs(analyse, annee, meta_ppp, impact) ==
  [ppp_nom |-> meta_ppp.ppp_nom,
   ppp_usage |-> meta_ppp.ppp_usage,
   ppp_usages_typiques |-> meta_ppp.ppp_usages_typiques,
   ppp_taux_ugl |-> impact.conc_ugl,
   ppp_seuil_sanitaire_ugl |-> impact.seuil_ugl,
   ppp_ratio_seuil |-> impact.ratio,
   ppp_depassement |-> impact.depassement,
   source |-> S("Naïades"),
   type_donnee |-> S("impact_surface"),
   code_station |-> Get(analyse, "code_station"),
   libelle_station |-> Get(analyse, "libelle_station"),
   code_departement |-> PyOr(Get(analyse, "code_departement"), S(CODE_DEPARTEMENT_COTE_DOR)),
   code_commune |-> Get(analyse, "code_commune"),
   libelle_commune |-> Get(analyse, "libelle_commune"),
   nom_cours_eau |-> Get(analyse, "nom_cours_eau"),
   nom_masse_deau |-> Get(analyse, "nom_masse_deau"),
   libelle_parametre |-> Get(analyse, "libelle_parametre"),
   code_parametre |-> Get(analyse, "code_parametre"),
   resultat |-> Get(analyse, "resultat"),
   symbole_unite |-> Get(analyse, "symbole_unite"),
   date_prelevement |-> Get(analyse, "date_prelevement"),
   annee |-> annee,
   ppp_description |-> meta_ppp.ppp_description,
   ppp_url_inrs |-> meta_ppp.ppp_url_inrs,
   ppp_url_ephy |-> meta_ppp.ppp_url_ephy]

NaiadesBuilt(analyse, geom, annee, meta_ppp, impact) ==
  Built("naiades", analyse, geom, annee, meta_ppp, impact,
        NaiadesAttrs(analyse, annee, meta_ppp, impact))

feature_naiades_analyse(analyse, cache, file, c3po_by_param, tabs) ==
  IF ~Truthy(Get(analyse, "geometry")) /\ LonLatRaises(analyse)
  THEN EarlyReturn("naiades", analyse, None, TRUE)
  ELSE IF ~Truthy(GeomNaiades(analyse))
  THEN EarlyReturn("naiades", analyse, GeomNaiades(analyse), FALSE)
  ELSE IF ~DeptNaiades(Get(analyse, "code_departement"))
  THEN EarlyReturn("naiades", analyse, GeomNaiades(analyse), FALSE)
  ELSE NaiadesBuilt(analyse, GeomNaiades(analyse),
                    Annee(Get(analyse, "date_prelevement")),
                    ppp_metadata_for_param(Get(analyse, "code_parametre"),
                                           Get(analyse, "libelle_parametre"),
                                           c3po_by_param, tabs),
                    Impact(ConcNaiades(Get(analyse, "resultat"), Get(analyse, "symbole_unite")),
                           Get(analyse, "code_parametre"), cache, file))

\* the geometry an ADES record is given: always built from lon/lat
GeomAdes(analyse) ==
  Point(F(PyFloat(Get(analyse, "longitude")).v), F(PyFloat(Get(analyse, "latitude")).v))

\* str(num_dep) if num_dep is not None else None
StrOrNone(x) == IF ~IsNone(x) THEN S(PyStr(x)) ELSE None

\* the attrs dict of feature_ades_analyse
AdesAttrs(analyse, annee, meta_ppp, impact) ==
  [ppp_nom |-> meta_ppp.ppp_nom,
   ppp_usage |-> meta_ppp.ppp_usage,
   ppp_usages_typiques |-> meta_ppp.ppp_usages_typiques,
   ppp_taux_ugl |-> impact.conc_ugl,
   ppp_seuil_sanitaire_ugl |-> impact.seuil_ugl,
   ppp_ratio_seuil |-> impact.ratio,
   ppp_depassement |-> impact.depassement,
   source |-> S("ADES"),
   type_donnee |-> S("impact_souterrain"),
   bss_id |-> Get(analyse, "bss_id"),
   code_bss |-> Get(analyse, "code_bss"),
   num_departement |-> StrOrNone(Get(analyse, "num_departement")),
   nom_commune |-> Get(analyse, "nom_commune_actuel"),
   code_departement |->
     IF PyEq(Get(analyse, "num_departement"), S("21"))
          \/ PyEq(Get(analyse, "num_departement"), I(21))
     THEN S(CODE_DEPARTEMENT_COTE_DOR) ELSE None,
   libelle_parametre |-> Get(analyse, "nom_param"),
   code_parametre |-> Get(analyse, "code_param"),
   resultat |-> Get(analyse, "resultat"),
   symbole_unite |-> Get(analyse, "symbole_unite"),
   date_prelevement |-> Get(analyse, "date_debut_prelevement"),
   annee |-> annee,
   ppp_description |-> meta_ppp.ppp_description,
   ppp_url_inrs |-> meta_ppp.ppp_url_inrs,
   ppp_url_ephy |-> meta_ppp.ppp_url_ephy]

AdesBuilt(analyse, geom, annee, meta_ppp, impact) ==
  Built("ades", analyse, geom, annee, meta_ppp, impact,
        AdesAttrs(analyse, annee, meta_ppp, impact))

feature_ades_analyse(analyse, cache, file, c3po_by_param, tabs) ==
  IF IsNone(Get(analyse, "longitude")) \/ IsNone(Get(analyse, "latitude"))
  THEN EarlyReturn("ades", analyse, None, FALSE)
  ELSE IF LonLatRaises(analyse)
  THEN EarlyReturn("ades", analyse, None, TRUE)
  ELSE IF ~in_cote_dor(Get(analyse, "code_departement"), Get(analyse, "num_departement"),
                       Get(analyse, "code_insee_actuel"))
  THEN EarlyReturn("ades", analyse, GeomAdes(analyse), FALSE)
  ELSE AdesBuilt(analyse, GeomAdes(analyse),
                 Annee(Get(analyse, "date_debut_prelevement")),
                 ppp_metadata_for_param(Get(analyse, "code_param"), Get(analyse, "nom_param"),
                                        c3po_by_param, tabs),
                 Impact(ConcAdes(Get(analyse, "resultat"), Get(analyse, "symbole_unite")),
                        Get(analyse, "code_param"), cache, file))

\* ------------------------------------------------------------------------
\* Reference data of the runs: the files the tables are loaded from
\* ------------------------------------------------------------------------

SeuilRow(code, val) == [code_parametre |-> code, seuil_ugl |-> val]

\* data/ref/seuils_pesticides.csv: specific thresholds, rows with blanks,
\* a comma decimal, an empty code, a missing value, a zero and a negative one
SeuilsRows ==
  <<SeuilRow(S("1105"), S("0.5")),
    SeuilRow(S(" 1107 "), S(" 0.5 ")),
    SeuilRow(S("1200"), S("0")),
    SeuilRow(S("1250"), S("-1")),
    SeuilRow(S("1300"), S("0,5")),
    SeuilRow(S(""), S("3")),
    SeuilRow(S("1400"), None)>>

UsageCsvRow(code, cas, usage, typiques, classement) ==
  [code_parametre |-> code, cas |-> cas, ppp_usage |-> usage,
   ppp_usages_typiques |-> typiques, classement |-> classement]

\* data/ref/ppp_usages.csv: an entry by code with a category, entries by CAS
\* only, an entry by code without category, an empty row
UsagesRows ==
  <<UsageCsvRow(S("1105"), S(""), S("fongicide"), S("Traitement des vignes."), S("")),
    UsageCsvRow(S(""), S("1912-24-9"), S("insecticide"), S(""), S("")),
    UsageCsvRow(S(""), S("61-82-5"), S("rodenticide"), S(""), S("")),
    UsageCsvRow(S(" 1200 "), S(""), S(""), S(""), S("CMR 2")),
    UsageCsvRow(S(""), S("111-11-1"), S("acaricide"), S(""), S("")),
    UsageCsvRow(S("1500"), S(""), S(" "), S(""), S(""))>>

C3poSub(code, lib, ephy, bnvd, agritox, cas) ==
  [code_parametre_sandre |-> code, libelle_parametre_sandre |-> lib, libelle_ephy |-> ephy,
   libelle_bnvd |-> bnvd, libelle_agritox |-> agritox, cas_parametre_sandre |-> cas]

\* data/out/substances_c3po_disponibles.json, key "apercu"
C3poApercu ==
  <<C3poSub(I(1105), S("Aminotriazole"), S("Herbicide systémique"), None, None, S("61-82-5")),
    C3poSub(S("1107"), S("Atrazine"), None, S("HERBICIDE maïs"), None, S("1912-24-9")),
    C3poSub(S("1200"), None, S("cuivre, fongicide"), None, None, S("111-11-1")),
    C3poSub(S("1250"), S("Deltaméthrine"), None, None, S("Insecticide, acaricide"), None),
    C3poSub(S("1300"), S("Nitrates"), None, None, None, S("14797-55-8")),
    C3poSub(S("1400"), S("Cuivre"), S("fungicide"), None, None, None),
    C3poSub(None, S("Sans code"), S("herbicide"), None, None, None)>>

C3poFile == [exists |-> TRUE, readable |-> TRUE, apercu |-> C3poApercu]

\* the reference files a run can find on disk
Environments ==
  {[thresholds |-> [exists |-> TRUE, readable |-> TRUE, rows |-> SeuilsRows],
    usages |-> [exists |-> TRUE, rows |-> UsagesRows]],
   [thresholds |-> [exists |-> FALSE, readable |-> FALSE, rows |-> <<>>],
    usages |-> [exists |-> FALSE, rows |-> <<>>]],
   [thresholds |-> [exists |-> TRUE, readable |-> FALSE, rows |-> <<>>],
    usages |-> [exists |-> TRUE, rows |-> UsagesRows]],
   [thresholds |-> [exists |-> TRUE, readable |-> TRUE, rows |-> <<>>],
    usages |-> [exists |-> TRUE, rows |-> <<>>]]}

\* ------------------------------------------------------------------------
\* Raw analysis records of the runs
\* ------------------------------------------------------------------------

\* a record with some fields replaced
Over(base, o) == [k \in DOMAIN base \cup DOMAIN o |-> IF k \in DOMAIN o THEN o[k] ELSE base[k]]

PointA == Point(F(48000), F(473215))

Geometries == {None, PointA, Geom("LineString", <<F(48000), F(473215), F(49000)>>),
               Geom("Point", <<F(48000)>>)}

LonLats == {<<None, None>>, <<F(50000), F(470000)>>, <<S("5.04"), I(47)>>,
            <<F(50000), None>>, <<S("abc"), F(470000)>>}

CodesDepartement == {None, S("21"), I(21), S("25")}

NumsDepartement == {None, I(21)}

CodesCommune == {None, S("21231"), S("25056")}

Resultats == {None, F(2000), S("0.0005"), S("0,5")}

Unites == {None, S("µg/L"), S("μg/L"), S("ug/L"), S("mg/L"), S("g/L")}

CodesSeuil == {None, S("1105"), S(" 1107 "), S("1200"), S("1250")}

Concentrations == {I(0), F(1000), F(1001), F(5000), F(5001)}

Dates == {None, S(""), S("20"), S("2020-01-15"), S("15/01/2020"), I(20200115)}

CodesParametre == {None, S(""), S("1105"), I(1105), S(" 1105 "), S("1107"), S("1200"),
                   S("1250"), S("1300"), S("1400"), S("9999")}

Libelles == {None, S("Désherbant Herbicide total")}

NaiadesBase ==
  [geometry |-> PointA, code_departement |-> S("21"), code_commune |-> S("21231"),
   date_prelevement |-> S("2020-01-15"), code_parametre |-> S("1105"),
   libelle_parametre |-> S("Aminotriazole"), resultat |-> F(2000),
   symbole_unite |-> S("µg/L"), code_station |-> S("06017050"),
   libelle_station |-> S("La Saône à Auxonne"), libelle_commune |-> S("Auxonne"),
   nom_cours_eau |-> S("La Saône"), nom_masse_deau |-> S("")]

AdesBase ==
  [longitude |-> F(50000), latitude |-> F(470000), num_departement |-> S("21"),
   code_insee_actuel |-> S("21231"), date_debut_prelevement |-> S("2020-01-15"),
   code_param |-> S("1105"), nom_param |-> S("Aminotriazole"), resultat |-> F(2000),
   symbole_unite |-> S("µg/L"), bss_id |-> S("BSS001ABCD"), code_bss |-> S("04987X0012/P"),
   nom_commune_actuel |-> S("")]

\* the records of one schema: each group of fields varied over its values,
\* the other fields held at the base record
Analyses(base, fCode, fLabel, fDate, fInsee) ==
  {Over(base, [geometry |-> g, longitude |-> ll[1], latitude |-> ll[2]]) :
     g \in Geometries, ll \in LonLats}
  \cup {Over(base, ("code_departement" :> cd) @@ ("num_departement" :> nd) @@ (fInsee :> cc)
                   @@ [geometry |-> PointA, longitude |-> F(50000), latitude |-> F(470000)]) :
          cd \in CodesDepartement, nd \in NumsDepartement, cc \in CodesCommune}
  \cup {Over(base, ("code_departement" :> x[1]) @@ ("num_departement" :> x[2]) @@ (fInsee :> x[3])
                   @@ [geometry |-> PointA, longitude |-> F(50000), latitude |-> F(470000)]) :
          x \in {<<None, S("21"), None>>, <<None, S("25"), None>>,
                 <<None, None, S(" 21231")>>, <<S(""), None, None>>}}
  \cup {Over(base, [resultat |-> r, symbole_unite |-> u]) : r \in Resultats, u \in Unites}
  \cup {Over(base, (fCode :> c) @@ [resultat |-> r]) : c \in CodesSeuil, r \in Concentrations}
  \cup {Over(base, fDate :> d) : d \in Dates}
  \cup {Over(base, (fCode :> c) @@ (fLabel :> l)) : c \in CodesParametre, l \in Libelles}

NaiadesAnalyses ==
  Analyses(NaiadesBase, "code_parametre", "libelle_parametre", "date_prelevement", "code_commune")

AdesAnalyses ==
  Analyses(AdesBase, "code_param", "nom_param", "date_debut_prelevement", "code_insee_actuel")

\* ------------------------------------------------------------------------
\* build_geojson_features as a state machine
\* ------------------------------------------------------------------------

VARIABLES
  phase,                \* position in build_geojson_features
  features,             \* the list being built
  call,                 \* the locals of the last builder call
  nDone,                \* records consumed so far
  THRESHOLDS_CACHE,     \* thresholds._THRESHOLDS_CACHE
  PPP_USAGES_BY_CODE,   \* ppp_dict._PPP_USAGES_BY_CODE
  PPP_USAGES_BY_CAS,    \* ppp_dict._PPP_USAGES_BY_CAS
  C3PO_BY_PARAM,        \* sig._C3PO_BY_PARAM
  thresholdsFile,       \* the thresholds CSV on disk
  usagesFile,           \* the usages CSV on disk
  sigFeatures,          \* the features of the GeoJSON file at sig_path
  viewCall,             \* the locals of the last view export
  prevCall,             \* the locals of the view export before it
  viewFiles,            \* the GeoJSON file of each view at its out_path
  c3poFile,             \* data/out/substances_c3po_disponibles.json on disk
  fetch                 \* the locals of the running Hub'Eau fetch

vars == <<phase, features, call, nDone, THRESHOLDS_CACHE, PPP_USAGES_BY_CODE,
          PPP_USAGES_BY_CAS, C3PO_BY_PARAM, thresholdsFile, usagesFile,
          sigFeatures, viewCall, prevCall, viewFiles, c3poFile, fetch>>

\* the variables of the view exports
viewVars == <<sigFeatures, viewCall, prevCall, viewFiles>>

\* no view export has run
NoViewCall == [view |-> "none"]

\* no view file has been written
NoViewFiles == [top10 |-> None, hotspots |-> None, agregations |-> None]

\* no fetch has run
NoFetch == [op |-> "none"]

NoCall == EarlyReturn("none", EmptyDict, None, FALSE)

Init ==
  /\ phase = "naiades"
  /\ features = <<>>
  /\ call = NoCall
  /\ nDone = 0
  /\ THRESHOLDS_CACHE = None
  /\ PPP_USAGES_BY_CODE = None
  /\ PPP_USAGES_BY_CAS = None
  /\ C3PO_BY_PARAM = LoadC3poSubstances(C3poFile)
  /\ c3poFile = C3poFile
  /\ \E env \in Environments :
       /\ thresholdsFile = env.thresholds
       /\ usagesFile = env.usages
  /\ sigFeatures = <<>>
  /\ viewCall = NoViewCall
  /\ prevCall = NoViewCall
  /\ viewFiles = NoViewFiles
  /\ fetch = NoFetch

\* one iteration of a loop of build_geojson_features: the builder runs on
\* the record, loads the tables it consults, and its feature is appended
Iteration(r, tabs) ==
  /\ call' = r
  /\ features' = IF Truthy(r.result) THEN Append(features, r.result) ELSE features
  /\ phase' = IF r.raised THEN "raised" ELSE phase
  /\ nDone' = nDone + 1
  /\ PPP_USAGES_BY_CODE' = IF r.built THEN D(tabs.by_code) ELSE PPP_USAGES_BY_CODE
  /\ PPP_USAGES_BY_CAS' = IF r.built THEN D(tabs.by_cas) ELSE PPP_USAGES_BY_CAS
  /\ THRESHOLDS_CACHE' = IF r.loads_seuils
                         THEN D(LoadThresholds(THRESHOLDS_CACHE, thresholdsFile))
                         ELSE THRESHOLDS_CACHE
  /\ UNCHANGED <<C3PO_BY_PARAM, thresholdsFile, usagesFile>>
  /\ UNCHANGED <<viewVars, c3poFile, fetch>>

NaiadesAnalyse ==
  /\ phase = "naiades"
  /\ nDone < MaxAnalyses
  /\ \E a \in NaiadesAnalyses :
       LET tabs == LoadPppUsages(PPP_USAGES_BY_CODE, PPP_USAGES_BY_CAS, usagesFile)
       IN Iteration(feature_naiades_analyse(a, THRESHOLDS_CACHE, thresholdsFile,
                                            C3PO_BY_PARAM, tabs), tabs)

NaiadesDone ==
  /\ phase = "naiades"
  /\ phase' = "ades"
  /\ UNCHANGED <<features, call, nDone, THRESHOLDS_CACHE, PPP_USAGES_BY_CODE,
                 PPP_USAGES_BY_CAS, C3PO_BY_PARAM, thresholdsFile, usagesFile>>
  /\ UNCHANGED <<viewVars, c3poFile, fetch>>

AdesAnalyse ==
  /\ phase = "ades"
  /\ nDone < MaxAnalyses
  /\ \E a \in AdesAnalyses :
       LET tabs == LoadPppUsages(PPP_USAGES_BY_CODE, PPP_USAGES_BY_CAS, usagesFile)
       IN Iteration(feature_ades_analyse(a, THRESHOLDS_CACHE, thresholdsFile,
                                         C3PO_BY_PARAM, tabs), tabs)

AdesDone ==
  /\ phase = "ades"
  /\ phase' = "returned"
  /\ UNCHANGED <<features, call, nDone, THRESHOLDS_CACHE, PPP_USAGES_BY_CODE,
                 PPP_USAGES_BY_CAS, C3PO_BY_PARAM, thresholdsFile, usagesFile>>
  /\ UNCHANGED <<viewVars, c3poFile, fetch>>

Next == NaiadesAnalyse \/ NaiadesDone \/ AdesAnalyse \/ AdesDone

Spec == Init /\ [][Next]_vars

\* ------------------------------------------------------------------------
\* Properties
\* ------------------------------------------------------------------------

\* the last builder call returned a feature
Emitted == call.result.t = "feature"

\* a builder has been called
Called == call.schema # "none"

\* the fields of the last record, by the name its schema gives them
RecCode == Get(call.analyse, IF call.schema = "naiades" THEN "code_parametre" ELSE "code_param")

RecLabel == Get(call.analyse, IF call.schema = "naiades" THEN "libelle_parametre" ELSE "nom_param")

RecDate ==
  Get(call.analyse, IF call.schema = "naiades" THEN "date_prelevement" ELSE "date_debut_prelevement")

RecInsee == Get(call.analyse, IF call.schema = "naiades" THEN "code_commune" ELSE "code_insee_actuel")

Is21(x) == x = S("21") \/ x = I(21)

\* one of the record's own three department signals designates departement 21
SomeSignal ==
  \/ Is21(Get(call.analyse, "code_departement"))
  \/ Is21(Get(call.analyse, "num_departement"))
  \/ (RecInsee.t = "str" /\ StartsWith(Strip(RecInsee.v), "21"))

IsPoint(g) == g.t = "geom" /\ g.type = "Point" /\ Len(g.coordinates) >= 2

C2_EverySignalledRecordEmitted ==
  (Called /\ ~call.raised /\ IsPoint(call.geom) /\ SomeSignal) => Emitted

\* C3 (as stated): every feature of build_geojson_features has a non-null
\* parameter code.
C3_FeaturesHaveParameterCode ==
  \A i \in 1..Len(features) : ~IsNone(features[i].properties["code_parametre"])

\* C3 (amended): a record is not dropped for its parameter code; the emitted
\* feature, appended to the list, carries the record's parameter code, or
\* null when that code is null, missing or empty.
C3_CodeAttributeIsRecordCode ==
  Emitted =>
    /\ features # <<>> /\ features[Len(features)] = call.result
    /\ call.result.properties["code_parametre"] =
         (IF IsNone(RecCode) \/ RecCode = S("") THEN None ELSE RecCode)

C3_Witness_EmittedWithoutCode ==
  Emitted /\ IsNone(RecCode) /\ Len(features) > 0

\* C4: ratio and exceedance are non-null exactly when the concentration is
\* known and the threshold is > 0; then ratio = c / t and exceedance is
\* ratio > 1.0 strictly; without concentration, threshold, ratio and
\* exceedance are all null.  The emitted feature carries these values.
C4_RatioAndExceedance ==
  call.built =>
    /\ IF IsNone(call.conc_ugl)
       THEN IsNone(call.seuil_ugl) /\ IsNone(call.ratio) /\ IsNone(call.depassement)
       ELSE /\ call.seuil_ugl.t = "float"
            /\ ~IsNone(call.ratio) <=> call.seuil_ugl.v > 0
            /\ ~IsNone(call.depassement) <=> call.seuil_ugl.v > 0
            /\ call.seuil_ugl.v > 0 =>
                 /\ call.ratio.den > 0
                 /\ call.ratio.num * call.seuil_ugl.v = call.conc_ugl.v * call.ratio.den
                 /\ call.depassement = B(call.conc_ugl.v > call.seuil_ugl.v)
    /\ Emitted =>
         /\ call.result.properties["ppp_taux_ugl"] = call.conc_ugl
         /\ call.result.properties["ppp_seuil_sanitaire_ugl"] = call.seuil_ugl
         /\ call.result.properties["ppp_ratio_seuil"] = call.ratio
         /\ call.result.properties["ppp_depassement"] = call.depassement

C4_Witness_ConcentrationEqualsThreshold ==
  /\ Emitted
  /\ ~IsNone(call.conc_ugl)
  /\ call.conc_ugl.v = call.seuil_ugl.v
  /\ call.result.properties["ppp_depassement"] = B(FALSE)

\* the concentration the normalizer is said to give, for a set of
\* spellings of ug/L taken as equivalent
ConcSaid(resultat, unite, spellings) ==
  IF IsNone(resultat) \/ IsNone(unite) THEN None
  ELSE IF ~PyFloat(resultat).ok THEN None
  ELSE IF unite.t = "str" /\ unite.v \in spellings THEN F(PyFloat(resultat).v)
  ELSE IF unite = S("mg/L") THEN F(PyFloat(resultat).v * 1000)
  ELSE None

\* C5: ug/L spelled with the micro sign, the Greek mu or a plain u gives the
\* value unchanged, mg/L gives value x 1000, anything else null; both
\* builders and utils.resultat_to_ugl agree.
C5_NormalizerAnyMicroSign ==
  call.built =>
    /\ call.conc_ugl = ConcSaid(Get(call.analyse, "resultat"), Get(call.analyse, "symbole_unite"),
                                {"µg/L", "μg/L", "ug/L"})
    /\ call.conc_ugl = resultat_to_ugl(Get(call.analyse, "resultat"),
                                       Get(call.analyse, "symbole_unite"))

\* C6: seuil_sanitaire_ugL returns the value of the override table when the
\* trimmed string form of the code is one of its keys, else the default 0.1
\* (null code, unknown code, table missing, unreadable or empty); the table
\* is the one read from the rows of the file.
C6_ThresholdOverrideElseDefault ==
  call.loads_seuils =>
    /\ THRESHOLDS_CACHE.t = "dict"
    /\ call.seuil_ugl =
         (IF ~IsNone(RecCode) /\ Strip(PyStr(RecCode)) \in DOMAIN THRESHOLDS_CACHE.v
          THEN THRESHOLDS_CACHE.v[Strip(PyStr(RecCode))]
          ELSE F(Scale \div 10))
    /\ (~thresholdsFile.exists \/ ~thresholdsFile.readable \/ thresholdsFile.rows = <<>>) =>
         (DOMAIN THRESHOLDS_CACHE.v = {} /\ call.seuil_ugl = F(Scale \div 10))
    /\ (thresholdsFile.readable /\ thresholdsFile.rows = SeuilsRows) =>
         THRESHOLDS_CACHE.v = [k \in {"1105", "1107", "1200", "1250"} |->
                                 IF k = "1200" THEN F(0)
                                 ELSE IF k = "1250" THEN F(0 - Scale) ELSE F(Scale \div 2)]

C6_Witness_TrimmedCodeOverride ==
  /\ call.loads_seuils
  /\ RecCode = S(" 1107 ")
  /\ call.seuil_ugl = F(Scale \div 2)

\* the Point a builder makes of the record's lon/lat
LonLatPoint ==
  Point(F(PyFloat(Get(call.analyse, "longitude")).v), F(PyFloat(Get(call.analyse, "latitude")).v))

LonLatMissing == IsNone(Get(call.analyse, "longitude")) \/ IsNone(Get(call.analyse, "latitude"))

\* every emitted feature has a Point geometry and the wkt_geom made of it
PointAndWkt ==
  Emitted =>
    /\ IsPoint(call.result.geometry)
    /\ call.result.properties["wkt_geom"] =
         S("Point (" \o PyStr(call.result.geometry.coordinates[1]) \o " "
                     \o PyStr(call.result.geometry.coordinates[2]) \o ")")

\* C7 (as stated): for either schema the geometry is the embedded one when
\* present, else a Point of lon/lat; without both the record is dropped;
\* emitted features have a Point geometry and a wkt_geom.
C7_EmbeddedGeometryPreferredBothSchemas ==
  (Called /\ ~call.raised) =>
    /\ Emitted =>
         call.result.geometry =
           (IF Truthy(Get(call.analyse, "geometry")) THEN Get(call.analyse, "geometry")
            ELSE LonLatPoint)
    /\ (~Truthy(Get(call.analyse, "geometry")) /\ LonLatMissing) => ~Emitted
    /\ PointAndWkt

\* C7 (amended): a Naiades record takes its embedded geometry when present,
\* else a Point of lon/lat; an ADES record always takes a Point of lon/lat
\* and ignores an embedded geometry; a record left without geometry is
\* dropped; emitted features have a Point geometry and a wkt_geom.
C7_GeometryPerSchema ==
  (Called /\ ~call.raised) =>
    /\ (Emitted /\ call.schema = "naiades") =>
         call.result.geometry =
           (IF Truthy(Get(call.analyse, "geometry")) THEN Get(call.analyse, "geometry")
            ELSE LonLatPoint)
    /\ (Emitted /\ call.schema = "ades") => call.result.geometry = LonLatPoint
    /\ (call.schema = "naiades" /\ ~Truthy(Get(call.analyse, "geometry")) /\ LonLatMissing)
         => ~Emitted
    /\ (call.schema = "ades" /\ LonLatMissing) => ~Emitted
    /\ PointAndWkt

C7_Witness_AdesIgnoresEmbeddedGeometry ==
  /\ Emitted
  /\ call.schema = "ades"
  /\ Truthy(Get(call.analyse, "geometry"))
  /\ call.result.geometry # Get(call.analyse, "geometry")

\* C8: the properties of an emitted feature have exactly the keys of
\* COLONNES_ATTR; each attribute is the value the builder supplies for it
\* when that value is neither null nor "", and null otherwise; 0 and false
\* are kept.
C8_FixedAttributeSet ==
  Emitted =>
    /\ DOMAIN call.result.properties = Range(COLONNES_ATTR)
    /\ Cardinality(DOMAIN call.result.properties) = Len(COLONNES_ATTR)
    /\ \A k \in DOMAIN call.result.properties \ {"wkt_geom"} :
         call.result.properties[k] =
           (IF k \in DOMAIN call.attrs /\ call.attrs[k] # None /\ call.attrs[k] # S("")
            THEN call.attrs[k] ELSE None)
    /\ ~IsNone(call.result.properties["wkt_geom"])

C8_Witness_ZeroFalseAndEmptyString ==
  /\ Emitted
  /\ call.result.properties["ppp_taux_ugl"] = F(0)
  /\ call.result.properties["ppp_depassement"] = B(FALSE)
  /\ call.result.properties["resultat"] = I(0)
  /\ call.attrs["nom_masse_deau"] = S("")
  /\ IsNone(call.result.properties["nom_masse_deau"])

\* a date whose string form begins with four digits
WellFormedDate(d) ==
  d.t \in {"str", "int"} /\ Len(PyStr(d)) >= 4 /\ AllDigits(SubSeq(PyStr(d), 1, 4))

\* C9: the year is the first 4 characters of a present, well-formed date;
\* a missing, short or malformed date gives a null year.
C9_YearOrNull ==
  call.built =>
    call.annee = (IF WellFormedDate(RecDate) THEN S(SubSeq(PyStr(RecDate), 1, 4)) ELSE None)

\* the catalog entry and the dictionary entries the resolution consults
CatalogEntry == C3poFor(RecCode, C3PO_BY_PARAM)

CatalogCas == IF Truthy(CatalogEntry) THEN Get(CatalogEntry.v, "cas_parametre_sandre") ELSE None

EntryByCode ==
  IF ~IsNone(RecCode) /\ Strip(PyStr(RecCode)) \in DOMAIN PPP_USAGES_BY_CODE.v
  THEN PPP_USAGES_BY_CODE.v[Strip(PyStr(RecCode))] ELSE None

EntryByCas ==
  IF ~IsNone(CatalogCas) /\ Strip(PyStr(CatalogCas)) \in DOMAIN PPP_USAGES_BY_CAS.v
  THEN PPP_USAGES_BY_CAS.v[Strip(PyStr(CatalogCas))] ELSE None

UsageOf(entry) == IF IsNone(entry) THEN None ELSE Get(entry.v, "ppp_usage")

UsageByKeyword ==
  KeywordUsage(TextForDetection(BaseLabel(RecLabel, CatalogEntry), CatalogEntry))

DetectionText == TextForDetection(BaseLabel(RecLabel, CatalogEntry), CatalogEntry)

\* C11: when no manual override supplies a category, the category is the
\* first keyword of the priority list found in the lower-cased labels (null
\* when none occurs), and the heuristic used when the override file is built
\* (build_ppp_usages_from_c3po) gives the same category for the same text.
C11_SameCategoryAsOverrideBuilder ==
  (call.built /\ IsNone(UsageOf(IF ~IsNone(EntryByCode) THEN EntryByCode ELSE EntryByCas))) =>
    /\ call.meta_ppp.v.ppp_usage = KeywordUsage(DetectionText)
    /\ call.meta_ppp.v.ppp_usage = C3poKeywordUsage(DetectionText)

\* ------------------------------------------------------------------------
\* The ranking view (src/sig_views.py, export_top10_ppp_par_annee)
\* ------------------------------------------------------------------------

\* the slice [:10] of the sorted groups of one year
TOP10_KEEP == 10

\* props.get("code_parametre") and props.get("annee") are both truthy
HasYearAndCode(f) ==
  Truthy(Get(f.properties, "code_parametre")) /\ Truthy(Get(f.properties, "annee"))

\* key = (str(annee), str(code))
Top10Key(f) ==
  <<PyStr(Get(f.properties, "annee")), PyStr(Get(f.properties, "code_parametre"))>>

\* counts[key] after the counting loop
Top10Count(fs, key) ==
  Cardinality({i \in 1..Len(fs) : HasYearAndCode(fs[i]) /\ Top10Key(fs[i]) = key})

\* the positions at which the counting loop inserts a new key into counts
Top10FirstPositions(fs) ==
  SelectSeq([i \in 1..Len(fs) |-> i],
            LAMBDA i : /\ HasYearAndCode(fs[i])
                       /\ \A j \in 1..(i - 1) :
                            ~(HasYearAndCode(fs[j]) /\ Top10Key(fs[j]) = Top10Key(fs[i])))

\* counts.items(), in insertion order: <<annee, code, n>>
Top10CountItems(fs, firsts) ==
  [n \in 1..Len(firsts) |->
     <<Top10Key(fs[firsts[n]])[1], Top10Key(fs[firsts[n]])[2],
       Top10Count(fs, Top10Key(fs[firsts[n]]))>>]

\* by_year[annee]: the items of one year, in insertion order
ByYear(items, annee) == SelectSeq(items, LAMBDA it : it[1] = annee)

\* the sort of one year without reverse=True
SortedIndex_ascending(lst, i) ==
  1 + Cardinality({j \in 1..Len(lst) :
                     \/ lst[j][3] < lst[i][3]
                     \/ (lst[j][3] = lst[i][3] /\ j < i)})

\* the index in sorted(lst, key=lambda x: x[1], reverse=True) of the item at
\* index i of lst: the sort is stable, equal counts keep the order of lst
SortedIndex(lst, i) ==
  1 + Cardinality({j \in 1..Len(lst) :
                     \/ lst[j][3] > lst[i][3]
                     \/ (lst[j][3] = lst[i][3] /\ j < i)})

\* enumerate(lst_sorted) without start=1
Top10Ranked_from_zero(items) ==
  [n \in 1..Len(items) |->
     <<items[n][1], items[n][2], items[n][3],
       SortedIndex(ByYear(items, items[n][1]),
                   Cardinality({m \in 1..n : items[m][1] = items[n][1]})) - 1>>]

\* enumerate(lst_sorted, start=1) for every year: <<annee, code, n, rank>>
Top10Ranked(items) ==
  [n \in 1..Len(items) |->
     <<items[n][1], items[n][2], items[n][3],
       SortedIndex(ByYear(items, items[n][1]),
                   Cardinality({m \in 1..n : items[m][1] = items[n][1]}))>>]

\* top_ranks: the ranked items that survive the slice
TopRanks(ranked) == SelectSeq(ranked, LAMBDA r : r[4] <= TOP10_KEEP)

\* top_ranks.get(str(annee), {}).get(str(code))
RankGet(top_ranks, key) ==
  IF \E n \in 1..Len(top_ranks) : top_ranks[n][1] = key[1] /\ top_ranks[n][2] = key[2]
  THEN I((top_ranks[CHOOSE n \in 1..Len(top_ranks) :
                      top_ranks[n][1] = key[1] /\ top_ranks[n][2] = key[2]])[4])
  ELSE None

\* the feature appended to out_features: a copy with the flag and the rank
\* (the reordering of the property keys does not change the mapping)
Top10Annotated(f, rk) ==
  [f EXCEPT !.properties =
     DictSet(DictSet(f.properties, "top10_ppp_annee", B(TRUE)), "top10_rang", rk)]

\* the filtering loop
Top10Kept(fs, top_ranks) ==
  SelectSeq(fs, LAMBDA f : HasYearAndCode(f) /\ ~IsNone(RankGet(top_ranks, Top10Key(f))))

Top10OutFeatures(kept, top_ranks) ==
  [i \in 1..Len(kept) |-> Top10Annotated(kept[i], RankGet(top_ranks, Top10Key(kept[i])))]

\* a GeoJSON FeatureCollection file
FeatureCollection(fs) == [t |-> "fc", type |-> "FeatureCollection", features |-> fs]

\* the locals of export_top10_ppp_par_annee when it returns
Top10Locals(fs, items) ==
  [view |-> "top10", features |-> fs, wrote |-> fs # <<>>,
   counts |-> items,
   top_ranks |-> TopRanks(Top10Ranked(items)),
   out_features |-> Top10OutFeatures(Top10Kept(fs, TopRanks(Top10Ranked(items))),
                                     TopRanks(Top10Ranked(items)))]

\* ------------------------------------------------------------------------
\* Feature lists given to the ranking view
\* ------------------------------------------------------------------------

\* the largest number of parameter codes of one year
MaxCodes == 15

ViewFeature(props) ==
  [t |-> "feature", type |-> "Feature", geometry |-> PointA, properties |-> props]

Measure(annee, code) == ViewFeature([annee |-> annee, code_parametre |-> code])

CodeOf(i) == S(NatToStr(1100 + i))

Profiles == {"distinct", "equal", "pairs"}

\* the number of measures of the first i codes
CumCount(profile, i) ==
  CASE profile = "distinct" -> (i * (i + 1)) \div 2
    [] profile = "equal" -> i
    [] profile = "pairs" -> (i \div 2) * ((i \div 2) + 1)
                              + (IF i % 2 = 1 THEN (i \div 2) + 1 ELSE 0)

\* the measures of year 2020, grouped by code: n codes
YearMeasures(profile, n) ==
  [j \in 1..CumCount(profile, n) |->
     Measure(S("2020"),
             CodeOf(CHOOSE i \in 1..n :
                      CumCount(profile, i - 1) < j /\ j <= CumCount(profile, i)))]

Extras == {"none", "unkeyed", "other_year", "int_keys"}

ExtraMeasures(extra) ==
  CASE extra = "none" -> <<>>
    [] extra = "unkeyed" -> <<Measure(None, CodeOf(1)), Measure(S("2020"), None),
                              Measure(S("2020"), I(0)), Measure(S(""), CodeOf(2)),
                              ViewFeature(EmptyDict)>>
    [] extra = "other_year" -> <<Measure(S("2021"), CodeOf(1)), Measure(S("2021"), CodeOf(2)),
                                 Measure(S("2021"), CodeOf(1))>>
    [] extra = "int_keys" -> <<Measure(I(2020), I(1101))>>

Reverse(q) == [j \in 1..Len(q) |-> q[Len(q) + 1 - j]]

Top10Inputs ==
  {IF asc THEN YearMeasures(profile, n) \o ExtraMeasures(extra)
   ELSE Reverse(YearMeasures(profile, n) \o ExtraMeasures(extra)) :
     profile \in Profiles, n \in 0..MaxCodes, extra \in Extras, asc \in BOOLEAN}

\* ------------------------------------------------------------------------
\* The ranking view as a state machine
\* ------------------------------------------------------------------------

\* the feature builder is not running
PipelineAtRest ==
  /\ phase = "returned"
  /\ features = <<>>
  /\ call = NoCall
  /\ nDone = 0
  /\ THRESHOLDS_CACHE = None
  /\ PPP_USAGES_BY_CODE = None
  /\ PPP_USAGES_BY_CAS = None
  /\ C3PO_BY_PARAM = LoadC3poSubstances(C3poFile)
  /\ c3poFile = C3poFile
  /\ thresholdsFile = [exists |-> TRUE, readable |-> TRUE, rows |-> SeuilsRows]
  /\ usagesFile = [exists |-> TRUE, rows |-> UsagesRows]

pipelineVars == <<phase, features, call, nDone, THRESHOLDS_CACHE, PPP_USAGES_BY_CODE,
                  PPP_USAGES_BY_CAS, C3PO_BY_PARAM, thresholdsFile, usagesFile, c3poFile>>

InitTop10 ==
  /\ PipelineAtRest
  /\ sigFeatures \in Top10Inputs
  /\ viewCall = NoViewCall
  /\ prevCall = NoViewCall
  /\ viewFiles = NoViewFiles
  /\ fetch = NoFetch

\* export_top10_ppp_par_annee(sig_path, out_path): an empty feature list
\* returns before anything is written
ExportTop10 ==
  /\ viewCall' = Top10Locals(sigFeatures,
                             Top10CountItems(sigFeatures, Top10FirstPositions(sigFeatures)))
  /\ viewFiles' = IF sigFeatures # <<>>
                  THEN [viewFiles EXCEPT !.top10 = FeatureCollection(viewCall'.out_features)]
                  ELSE viewFiles
  /\ prevCall' = viewCall
  /\ UNCHANGED <<sigFeatures, pipelineVars, fetch>>

NextTop10 == ExportTop10

SpecTop10 == InitTop10 /\ [][NextTop10]_vars

\* ------------------------------------------------------------------------
\* Properties of the ranking view
\* ------------------------------------------------------------------------

\* the ranking view returned after writing its file
Top10Written == viewCall.view = "top10" /\ viewCall.wrote

\* the (year, code) groups of the features given to the export
InGroups ==
  {Top10Key(viewCall.features[i]) :
     i \in {j \in 1..Len(viewCall.features) : HasYearAndCode(viewCall.features[j])}}

\* the groups that have a feature in the view
OutGroups ==
  {Top10Key(viewCall.out_features[i]) : i \in 1..Len(viewCall.out_features)}

GroupsOfYear(annee) == {k \in InGroups : k[1] = annee}

KeptOfYear(annee) == {k \in GroupsOfYear(annee) : k \in OutGroups}

GroupCount(k) == Top10Count(viewCall.features, k)

\* the rank carried by the first feature of a kept group
GroupRank(k) ==
  viewCall.out_features[CHOOSE i \in 1..Len(viewCall.out_features) :
                          Top10Key(viewCall.out_features[i]) = k].properties["top10_rang"].v

Min(a, b) == IF a < b THEN a ELSE b

\* the groups of year 2020 are MaxCodes codes with pairwise distinct counts
FifteenDistinct ==
  /\ Cardinality(GroupsOfYear("2020")) = 15
  /\ \A k1, k2 \in GroupsOfYear("2020") : k1 # k2 => GroupCount(k1) # GroupCount(k2)

\* C12: for each year the groups with a feature in the view are min(10,
\* number of groups) groups of that year, none of them with a smaller count
\* than a group left out, and no feature of another group is in the view;
\* of 15 codes with distinct counts the 10 highest survive.
C12_TopGroupsPerYear ==
  Top10Written =>
    /\ OutGroups \subseteq InGroups
    /\ \A k \in InGroups :
         /\ Cardinality(KeptOfYear(k[1])) = Min(10, Cardinality(GroupsOfYear(k[1])))
         /\ k \notin OutGroups =>
              \A kept \in KeptOfYear(k[1]) : GroupCount(kept) >= GroupCount(k)
    /\ FifteenDistinct =>
         KeptOfYear("2020") = {k \in GroupsOfYear("2020") : GroupCount(k) >= 6}

\* 15 codes with distinct counts in 2020: ten groups kept, the five with the
\* fewest measures absent
C12_Witness_FifteenCodesTenKept ==
  /\ Top10Written
  /\ FifteenDistinct
  /\ Cardinality(KeptOfYear("2020")) = 10
  /\ \E k \in GroupsOfYear("2020") : k \notin OutGroups /\ GroupCount(k) = 5

\* the ranks the export gives to a feature list
RanksOf(fs) ==
  Range(TopRanks(Top10Ranked(Top10CountItems(fs, Top10FirstPositions(fs)))))

\* C13 (as stated): equal counts of one year are ranked by ascending
\* parameter code, so the kept groups and their ranks are the same for the
\* feature list in any order.
C13_TiesByAscendingCode ==
  Top10Written =>
    /\ \A k1, k2 \in OutGroups :
         (k1[1] = k2[1] /\ GroupCount(k1) = GroupCount(k2)
            /\ DigitsToInt(k1[2]) < DigitsToInt(k2[2]))
           => GroupRank(k1) < GroupRank(k2)
    /\ RanksOf(Reverse(viewCall.features)) = Range(viewCall.top_ranks)

\* the features of the view with the two added properties taken away
Unranked(f) ==
  [f EXCEPT !.properties =
     [x \in DOMAIN f.properties \ {"top10_ppp_annee", "top10_rang"} |-> f.properties[x]]]

\* C14: every feature of the view carries the flag and a rank in 1..10; per
\* year the ranks of the kept groups are 1..(number of kept groups), a larger
\* count has a smaller rank, the features of a group carry one rank, the view
\* holds every feature of a kept group, and no feature without year or code.
C14_FlagAndRank ==
  Top10Written =>
    /\ \A i \in 1..Len(viewCall.out_features) :
         LET p == viewCall.out_features[i].properties
         IN /\ HasYearAndCode(viewCall.out_features[i])
            /\ Get(p, "top10_ppp_annee") = B(TRUE)
            /\ Get(p, "top10_rang").t = "int"
            /\ Get(p, "top10_rang").v \in 1..10
            /\ Get(p, "top10_rang").v = GroupRank(Top10Key(viewCall.out_features[i]))
    /\ \A k \in OutGroups :
         /\ {GroupRank(k2) : k2 \in KeptOfYear(k[1])} = 1..Cardinality(KeptOfYear(k[1]))
         /\ \A k2 \in KeptOfYear(k[1]) :
              GroupCount(k) > GroupCount(k2) => GroupRank(k) < GroupRank(k2)
    /\ [i \in 1..Len(viewCall.out_features) |-> Unranked(viewCall.out_features[i])]
         = SelectSeq(viewCall.features,
                     LAMBDA f : HasYearAndCode(f) /\ Top10Key(f) \in OutGroups)

\* a kept group with several features, next to features without year or code
\* and a group left out
C14_Witness_RankedAndDropped ==
  /\ Top10Written
  /\ \E i \in 1..Len(viewCall.features) : ~HasYearAndCode(viewCall.features[i])
  /\ \E k \in InGroups : k \notin OutGroups
  /\ \E k \in OutGroups : GroupCount(k) >= 2 /\ GroupRank(k) = 10

\* ------------------------------------------------------------------------
\* The hotspot view (src/sig_views.py, export_hotspots_ppp)
\* ------------------------------------------------------------------------

\* a < b on strings of digits (years), character by character
RECURSIVE StrLess(_, _)
StrLess(a, b) ==
  IF a = "" THEN b # ""
  ELSE IF b = "" THEN FALSE
  ELSE IF Ch(a, 1) = Ch(b, 1) THEN StrLess(SubSeq(a, 2, Len(a)), SubSeq(b, 2, Len(b)))
  ELSE DigitVal(Ch(a, 1)) < DigitVal(Ch(b, 1))

\* round(x, ndigits) of a float held in 1/Scale, unit = Scale / 10^ndigits:
\* to the nearest multiple of unit, a tie to the even one
Round(m, unit) ==
  IF 2 * (m % unit) > unit \/ (2 * (m % unit) = unit /\ (m \div unit) % 2 = 1)
  THEN ((m \div unit) + 1) * unit
  ELSE (m \div unit) * unit

\* `not substance or not lieu`, with lieu = props.get("lieu") or ""
HotspotSkipped(props) ==
  ~Truthy(Get(props, "substance")) \/ ~Truthy(PyOr(Get(props, "lieu"), S("")))

\* key = (str(type_eau), str(lieu), str(substance).strip())
HotspotKey(props) ==
  <<PyStr(PyOr(Get(props, "type_eau"), S(""))), PyStr(PyOr(Get(props, "lieu"), S(""))),
    Strip(PyStr(Get(props, "substance")))>>

\* the aggregate created for the first feature of a key
NewAgg(props, geom) ==
  [type_eau |-> PyOr(Get(props, "type_eau"), S("")),
   lieu |-> PyOr(Get(props, "lieu"), S("")),
   substance |-> Get(props, "substance"),
   usage_ppp |-> Get(props, "usage_ppp"),
   amm_autorise |-> Get(props, "amm_autorise"),
   commune |-> Get(props, "commune"),
   cours_eau |-> Get(props, "cours_eau"),
   masse_eau |-> Get(props, "masse_eau"),
   lien_fiche |-> Get(props, "lien_fiche"),
   n_mesures |-> I(0),
   n_depassements |-> I(0),
   depassement_seuil_nqe |-> B(FALSE),
   max_conc_ugl |-> F(0),
   concentration_ugl |-> F(0),
   depassement_seuil_sanitaire |-> B(FALSE),
   max_ratio_seuil_sanitaire |-> None,
   annee_min |-> None,
   annee_max |-> None,
   date_prelevement |-> None,
   _geometry |-> geom]

\* if props.get("depassement_seuil_nqe") == "oui"
AfterNqe(agg, props) ==
  IF PyEq(Get(props, "depassement_seuil_nqe"), S("oui"))
  THEN [agg EXCEPT !.depassement_seuil_nqe = B(TRUE)]
  ELSE agg

\* the block on ratio_seuil_sanitaire keeping the date of the first maximum
AfterRatio_first_date(agg, props, ratio_sanitaire) ==
  IF IsNone(ratio_sanitaire) \/ ~PyFloat(ratio_sanitaire).ok THEN agg
  ELSE IF IsNone(agg.max_ratio_seuil_sanitaire)
       THEN [agg EXCEPT !.max_ratio_seuil_sanitaire = F(PyFloat(ratio_sanitaire).v),
                        !.date_prelevement = Get(props, "date_prelevement")]
  ELSE IF PyFloat(ratio_sanitaire).v > agg.max_ratio_seuil_sanitaire.v
       THEN [agg EXCEPT !.max_ratio_seuil_sanitaire = F(PyFloat(ratio_sanitaire).v)]
  ELSE agg

\* the block on ratio_seuil_sanitaire; float() raising leaves agg as it is
AfterRatio(agg, props, ratio_sanitaire) ==
  IF IsNone(ratio_sanitaire) \/ ~PyFloat(ratio_sanitaire).ok THEN agg
  ELSE IF IsNone(agg.max_ratio_seuil_sanitaire)
          \/ PyFloat(ratio_sanitaire).v > agg.max_ratio_seuil_sanitaire.v
       THEN [agg EXCEPT !.max_ratio_seuil_sanitaire = F(PyFloat(ratio_sanitaire).v),
                        !.date_prelevement = Get(props, "date_prelevement")]
  ELSE agg

\* annee_min and annee_max after a feature with a known concentration
AfterAnnee(agg, annee) ==
  IF IsNone(annee) THEN agg
  ELSE [agg EXCEPT
          !.annee_min = IF IsNone(agg.annee_min) \/ StrLess(annee.v, agg.annee_min.v)
                        THEN annee ELSE @,
          !.annee_max = IF IsNone(agg.annee_max) \/ StrLess(agg.annee_max.v, annee.v)
                        THEN annee ELSE @]

\* if c > agg["max_conc_ugl"]
AfterMaxConc(agg, props, c) ==
  IF c > agg.max_conc_ugl.v
  THEN [agg EXCEPT !.max_conc_ugl = F(c),
                   !.concentration_ugl = F(c),
                   !.date_prelevement = IF IsNone(agg.date_prelevement)
                                        THEN Get(props, "date_prelevement") ELSE @]
  ELSE agg

\* if props.get("depassement_seuil_sanitaire") == "oui"
AfterSanitaire(agg, props) ==
  IF PyEq(Get(props, "depassement_seuil_sanitaire"), S("oui"))
  THEN [agg EXCEPT !.n_depassements = I(@.v + 1),
                   !.depassement_seuil_sanitaire = B(TRUE)]
  ELSE agg

\* the block on concentration_ugl with the sanitary count outside of it
AfterConc_flag_outside(agg, props, conc_ugl) ==
  IF IsNone(conc_ugl) \/ ~PyFloat(conc_ugl).ok THEN AfterSanitaire(agg, props)
  ELSE AfterSanitaire(
         AfterMaxConc(
           AfterAnnee([agg EXCEPT !.n_mesures = I(@.v + 1)],
                      Annee(Get(props, "date_prelevement"))),
           props, PyFloat(conc_ugl).v),
         props)

\* the block on concentration_ugl; float() raising leaves agg as it is
AfterConc(agg, props, conc_ugl) ==
  IF IsNone(conc_ugl) \/ ~PyFloat(conc_ugl).ok THEN agg
  ELSE AfterSanitaire(
         AfterMaxConc(
           AfterAnnee([agg EXCEPT !.n_mesures = I(@.v + 1)],
                      Annee(Get(props, "date_prelevement"))),
           props, PyFloat(conc_ugl).v),
         props)

\* the body of the aggregation loop on the aggregate of the feature's key
Accumulate(agg, props) ==
  AfterConc(AfterRatio(AfterNqe(agg, props), props, Get(props, "ratio_seuil_sanitaire")),
            props, Get(props, "concentration_ugl"))

\* aggs.get(key), created when missing; aggs keeps its insertion order
WithAgg(aggs, f) ==
  IF \E i \in 1..Len(aggs) : aggs[i].key = HotspotKey(f.properties) THEN aggs
  ELSE Append(aggs, [key |-> HotspotKey(f.properties),
                     agg |-> NewAgg(f.properties, f.geometry)])

\* one iteration of the aggregation loop
FoldFeature(aggs, f) ==
  IF HotspotSkipped(f.properties) THEN aggs
  ELSE [i \in 1..Len(WithAgg(aggs, f)) |->
          IF WithAgg(aggs, f)[i].key = HotspotKey(f.properties)
          THEN [WithAgg(aggs, f)[i] EXCEPT !.agg = Accumulate(@, f.properties)]
          ELSE WithAgg(aggs, f)[i]]

\* aggs after the first n features when the dict of the call before is kept
RECURSIVE HotspotAggs_kept(_, _)
HotspotAggs_kept(fs, n) ==
  IF n = 0 THEN (IF viewCall.view = "hotspots" THEN viewCall.aggs ELSE <<>>)
  ELSE FoldFeature(HotspotAggs_kept(fs, n - 1), fs[n])

\* aggs after the first n features
RECURSIVE HotspotAggs(_, _)
HotspotAggs(fs, n) ==
  IF n = 0 THEN <<>> ELSE FoldFeature(HotspotAggs(fs, n - 1), fs[n])

\* the emitting test on the sanitary count alone
HotspotEmitted_sanitary_only(agg) == agg.n_depassements.v > 0

\* agg["n_depassements"] <= 0 and not agg["depassement_seuil_nqe"]: continue
HotspotEmitted(agg) == agg.n_depassements.v > 0 \/ agg.depassement_seuil_nqe.v

\* taille_mm = round(4 + 0.75 * part + bonus_nqe, 1), part the ratio above 1
\* clamped to 0..9, r = 1.0 for an unknown ratio
TailleMm(max_ratio, nqe) ==
  Round(4 * Scale
          + (3 * Min(IF IsNone(max_ratio) \/ max_ratio.v - Scale < 0 THEN 0
                     ELSE max_ratio.v - Scale, 9 * Scale)) \div 4
          + (IF nqe THEN (3 * Scale) \div 2 ELSE 0),
        Scale \div 10)

\* taille_inner_mm = round(max(taille_mm - 1.5, 1.5), 1)
TailleInnerMm(taille_mm) ==
  Round(IF taille_mm - (3 * Scale) \div 2 > (3 * Scale) \div 2
        THEN taille_mm - (3 * Scale) \div 2 ELSE (3 * Scale) \div 2,
        Scale \div 10)

\* the size class with every breakpoint half a millimetre lower
ClasseTaille_lower_breakpoints(t) ==
  IF t >= 9 * Scale THEN 4
  ELSE IF t >= 7 * Scale THEN 3
  ELSE IF t >= 5 * Scale THEN 2
  ELSE 1

\* the size class of a taille_mm
ClasseTaille(t) ==
  IF 2 * t >= 19 * Scale THEN 4
  ELSE IF 2 * t >= 15 * Scale THEN 3
  ELSE IF 2 * t >= 11 * Scale THEN 2
  ELSE 1

\* the type decided on the environmental flag first
TypeDepassement_nqe_first(agg) ==
  IF agg.depassement_seuil_nqe.v THEN 2
  ELSE IF agg.depassement_seuil_sanitaire.v THEN 3
  ELSE 1

\* 1 = NQE and sanitary, 2 = NQE only, 3 = sanitary only
TypeDepassement(agg) ==
  IF agg.depassement_seuil_sanitaire.v /\ agg.depassement_seuil_nqe.v THEN 1
  ELSE IF agg.depassement_seuil_nqe.v THEN 2
  ELSE 3

\* the properties of the hotspot of an aggregate: max_ratio_seuil_sanitaire
\* and _geometry are popped, the derived fields added
HotspotProps(agg) ==
  [k \in (DOMAIN agg \ {"max_ratio_seuil_sanitaire", "_geometry"})
          \cup {"ratio_seuil_sanitaire", "taille_mm", "taille_inner_mm",
                "classe_taille", "type_depassement"} |->
     CASE k = "ratio_seuil_sanitaire" ->
            IF IsNone(agg.max_ratio_seuil_sanitaire) THEN None
            ELSE F(Round(agg.max_ratio_seuil_sanitaire.v, Scale \div 100))
       [] k = "taille_mm" ->
            F(TailleMm(agg.max_ratio_seuil_sanitaire, agg.depassement_seuil_nqe.v))
       [] k = "taille_inner_mm" ->
            F(TailleInnerMm(TailleMm(agg.max_ratio_seuil_sanitaire,
                                     agg.depassement_seuil_nqe.v)))
       [] k = "classe_taille" ->
            I(ClasseTaille(TailleMm(agg.max_ratio_seuil_sanitaire,
                                    agg.depassement_seuil_nqe.v)))
       [] k = "type_depassement" -> I(TypeDepassement(agg))
       [] OTHER -> agg[k]]

\* the emitting loop over aggs.values()
HotspotOutFeatures(emitted) ==
  [i \in 1..Len(emitted) |->
     [t |-> "feature", type |-> "Feature", geometry |-> emitted[i].agg._geometry,
      properties |-> HotspotProps(emitted[i].agg)]]

\* the locals of export_hotspots_ppp when it returns
HotspotLocals(fs, aggs) ==
  [view |-> "hotspots", features |-> fs, wrote |-> fs # <<>>,
   aggs |-> aggs,
   out_features |-> HotspotOutFeatures(SelectSeq(aggs, LAMBDA a : HotspotEmitted(a.agg)))]

\* ------------------------------------------------------------------------
\* Feature lists given to the hotspot view
\* ------------------------------------------------------------------------

\* the longest feature list
MaxRows == 3

HotspotRow(substance, type_eau, lieu, date_prel, conc_ugl, ratio, sanitaire, nqe) ==
  ViewFeature([substance |-> substance, type_eau |-> type_eau, lieu |-> lieu,
               date_prelevement |-> date_prel, concentration_ugl |-> conc_ugl,
               ratio_seuil_sanitaire |-> ratio, depassement_seuil_sanitaire |-> sanitaire,
               depassement_seuil_nqe |-> nqe])

HotspotRows ==
  {HotspotRow(S("Atrazine"), S("surface"), S("Saône"), S("2019-05-01"),
              F(3000), F(3 * Scale), S("oui"), None),
   HotspotRow(S("Atrazine"), S("surface"), S("Saône"), S("2021-03-01"),
              F(500), F(5000), S("non"), None),
   HotspotRow(S("Atrazine"), S("surface"), S("Saône"), S("2020-06-01"),
              F(6000), F(6 * Scale), S("oui"), S("oui")),
   HotspotRow(S("Atrazine"), S("surface"), S("Saône"), S("2018-01-01"),
              None, None, S("oui"), None),
   HotspotRow(S("Atrazine"), S("surface"), S("Saône"), None,
              F(12000), F(12 * Scale), S("oui"), S("oui")),
   HotspotRow(S(" Atrazine "), S("surface"), S("Saône"), S("2022-01-01"),
              F(Scale), I(10), S("oui"), None),
   HotspotRow(S("Glyphosate"), None, S("Saône"), S("2020-06-01"),
              F(200), None, S("non"), S("oui")),
   HotspotRow(S("Glyphosate"), None, S("Saône"), S("2017-09-09"),
              F(2346), F(23460), S("oui"), None),
   HotspotRow(None, S("surface"), S("Saône"), S("2019-05-01"),
              F(3000), F(3 * Scale), S("oui"), S("oui")),
   HotspotRow(S("Atrazine"), S("surface"), S(""), S("2019-05-01"),
              F(3000), F(3 * Scale), S("oui"), S("oui")),
   HotspotRow(S("Atrazine"), S("surface"), S("Saône"), S("2016-02-02"),
              S("abc"), S("n.d."), S("oui"), None),
   HotspotRow(S("Glyphosate"), None, S("Ouche"), S("2023-04-04"),
              S("0.15"), None, S("oui"), None),
   HotspotRow(S("Atrazine"), S("surface"), S("Saône"), S("2024-07-07"),
              F(2 * Scale), None, S("non"), None)}

HotspotInputs ==
  UNION {[1..n -> HotspotRows] : n \in 0..MaxRows}

\* ------------------------------------------------------------------------
\* The hotspot view as a state machine
\* ------------------------------------------------------------------------

InitHotspots ==
  /\ PipelineAtRest
  /\ sigFeatures \in HotspotInputs
  /\ viewCall = NoViewCall
  /\ prevCall = NoViewCall
  /\ viewFiles = NoViewFiles
  /\ fetch = NoFetch

\* export_hotspots_ppp(sig_path, out_path): an empty feature list returns
\* before anything is written
ExportHotspots ==
  /\ viewCall' = HotspotLocals(sigFeatures, HotspotAggs(sigFeatures, Len(sigFeatures)))
  /\ viewFiles' = IF sigFeatures # <<>>
                  THEN [viewFiles EXCEPT !.hotspots = FeatureCollection(viewCall'.out_features)]
                  ELSE viewFiles
  /\ prevCall' = viewCall
  /\ UNCHANGED <<sigFeatures, pipelineVars, fetch>>

NextHotspots == ExportHotspots

SpecHotspots == InitHotspots /\ [][NextHotspots]_vars

\* ------------------------------------------------------------------------
\* Properties of the hotspot view
\* ------------------------------------------------------------------------

\* the hotspot export returned
HotspotsReturned == viewCall.view = "hotspots"

\* the features a reader finds at a view's out_path (none without a file)
FileFeatures(file) == IF IsNone(file) THEN <<>> ELSE file.features

\* the properties of the features given to the hotspot export
RowProps(i) == viewCall.features[i].properties

\* the features of a group, by position in the input
GroupRows(key) ==
  {i \in 1..Len(viewCall.features) :
     ~HotspotSkipped(RowProps(i)) /\ HotspotKey(RowProps(i)) = key}

\* the hotspots of the view that belong to a group
HotspotsOf(key) ==
  {i \in 1..Len(viewCall.out_features) :
     HotspotKey(viewCall.out_features[i].properties) = key}

\* the properties of the hotspot of an emitted group
HotspotOf(key) == viewCall.out_features[CHOOSE i \in HotspotsOf(key) : TRUE].properties

\* no group has a sanitary exceedance counted or the environmental flag
ZeroExceedances ==
  \A i \in 1..Len(viewCall.aggs) :
    /\ viewCall.aggs[i].agg.n_depassements.v = 0
    /\ ~viewCall.aggs[i].agg.depassement_seuil_nqe.v

KnownConc(key) ==
  {i \in GroupRows(key) : /\ ~IsNone(Get(RowProps(i), "concentration_ugl"))
                          /\ PyFloat(Get(RowProps(i), "concentration_ugl")).ok}

\* the years of the dated features of a group
YearsOf(rows) ==
  {Annee(Get(RowProps(i), "date_prelevement")).v :
     i \in {j \in rows : Truthy(Get(RowProps(j), "date_prelevement"))}}

\* C16 (as stated): per group, n_mesures counts the features with a known
\* concentration, n_depassements the features flagged as sanitary exceedance,
\* max_conc_ugl is the largest known concentration, annee_min and annee_max
\* the smallest and largest year of the group, the environmental flag is set
\* iff a feature carries it; n_depassements <= n_mesures, the sanitary flag
\* is set iff n_depassements > 0, annee_min <= annee_max.
C16_GroupAccumulators ==
  HotspotsReturned =>
    \A n \in 1..Len(viewCall.aggs) :
      LET key == viewCall.aggs[n].key
          agg == viewCall.aggs[n].agg
      IN /\ agg.n_mesures.v = Cardinality(KnownConc(key))
         /\ agg.n_depassements.v =
              Cardinality({i \in GroupRows(key) :
                             PyEq(Get(RowProps(i), "depassement_seuil_sanitaire"), S("oui"))})
         /\ KnownConc(key) # {} =>
              /\ \E i \in KnownConc(key) :
                   agg.max_conc_ugl.v = PyFloat(Get(RowProps(i), "concentration_ugl")).v
              /\ \A i \in KnownConc(key) :
                   agg.max_conc_ugl.v >= PyFloat(Get(RowProps(i), "concentration_ugl")).v
         /\ IF YearsOf(GroupRows(key)) = {}
            THEN IsNone(agg.annee_min) /\ IsNone(agg.annee_max)
            ELSE /\ agg.annee_min.t = "str" /\ agg.annee_max.t = "str"
                 /\ agg.annee_min.v \in YearsOf(GroupRows(key))
                 /\ agg.annee_max.v \in YearsOf(GroupRows(key))
                 /\ \A y \in YearsOf(GroupRows(key)) :
                      ~StrLess(y, agg.annee_min.v) /\ ~StrLess(agg.annee_max.v, y)
         /\ agg.depassement_seuil_nqe.v
              = (\E i \in GroupRows(key) :
                   PyEq(Get(RowProps(i), "depassement_seuil_nqe"), S("oui")))
         /\ agg.n_depassements.v <= agg.n_mesures.v
         /\ agg.depassement_seuil_sanitaire.v = (agg.n_depassements.v > 0)
         /\ (~IsNone(agg.annee_min) /\ ~IsNone(agg.annee_max))
              => ~StrLess(agg.annee_max.v, agg.annee_min.v)

\* the features of a set flagged as sanitary exceedance
Flagged(rows) ==
  {i \in rows : PyEq(Get(RowProps(i), "depassement_seuil_sanitaire"), S("oui"))}

\* C16 (amended): per group, n_mesures counts the features with a known
\* concentration; n_depassements counts, among those, the features flagged
\* as sanitary exceedance; max_conc_ugl is their largest concentration;
\* annee_min and annee_max are the smallest and largest year among those
\* that carry a date; the environmental flag is set iff any feature of the
\* group carries it; n_depassements <= n_mesures, the sanitary flag is set
\* iff n_depassements > 0, annee_min <= annee_max.
C16_AccumulatorsOverKnownConcentrations ==
  HotspotsReturned =>
    \A n \in 1..Len(viewCall.aggs) :
      LET key == viewCall.aggs[n].key
          agg == viewCall.aggs[n].agg
      IN /\ agg.n_mesures.v = Cardinality(KnownConc(key))
         /\ agg.n_depassements.v = Cardinality(Flagged(KnownConc(key)))
         /\ KnownConc(key) # {} =>
              /\ \E i \in KnownConc(key) :
                   agg.max_conc_ugl.v = PyFloat(Get(RowProps(i), "concentration_ugl")).v
              /\ \A i \in KnownConc(key) :
                   agg.max_conc_ugl.v >= PyFloat(Get(RowProps(i), "concentration_ugl")).v
         /\ IF YearsOf(KnownConc(key)) = {}
            THEN IsNone(agg.annee_min) /\ IsNone(agg.annee_max)
            ELSE /\ agg.annee_min.t = "str" /\ agg.annee_max.t = "str"
                 /\ agg.annee_min.v \in YearsOf(KnownConc(key))
                 /\ agg.annee_max.v \in YearsOf(KnownConc(key))
                 /\ \A y \in YearsOf(KnownConc(key)) :
                      ~StrLess(y, agg.annee_min.v) /\ ~StrLess(agg.annee_max.v, y)
         /\ agg.depassement_seuil_nqe.v
              = (\E i \in GroupRows(key) :
                   PyEq(Get(RowProps(i), "depassement_seuil_nqe"), S("oui")))
         /\ agg.n_depassements.v <= agg.n_mesures.v
         /\ agg.depassement_seuil_sanitaire.v = (agg.n_depassements.v > 0)
         /\ (~IsNone(agg.annee_min) /\ ~IsNone(agg.annee_max))
              => ~StrLess(agg.annee_max.v, agg.annee_min.v)

\* a group with a flagged, dated feature without concentration next to a
\* later-dated flagged feature with one: the count and the years leave the
\* first out
C16_Witness_FlaggedWithoutConcentration ==
  /\ HotspotsReturned
  /\ \E n \in 1..Len(viewCall.aggs) :
       /\ viewCall.aggs[n].agg.n_depassements.v >= 1
       /\ viewCall.aggs[n].agg.n_depassements.v
            < Cardinality(Flagged(GroupRows(viewCall.aggs[n].key)))
       /\ ~IsNone(viewCall.aggs[n].agg.annee_min)
       /\ \E y \in YearsOf(GroupRows(viewCall.aggs[n].key)) :
            StrLess(y, viewCall.aggs[n].agg.annee_min.v)

\* the feature at position i has a ratio float() accepts
HasRatio(i) ==
  /\ ~IsNone(Get(RowProps(i), "ratio_seuil_sanitaire"))
  /\ PyFloat(Get(RowProps(i), "ratio_seuil_sanitaire")).ok

RatioAt(i) == PyFloat(Get(RowProps(i), "ratio_seuil_sanitaire")).v

ConcAt(i) == PyFloat(Get(RowProps(i), "concentration_ugl")).v

DateAt(i) == Get(RowProps(i), "date_prelevement")

\* the features of a group that strictly raise its maximum ratio
RatioRaisers(key) ==
  {i \in GroupRows(key) :
     /\ HasRatio(i)
     /\ \A j \in GroupRows(key) : (j < i /\ HasRatio(j)) => RatioAt(j) < RatioAt(i)}

\* the features of a group that strictly raise its maximum concentration
ConcRaisers(key) ==
  {i \in KnownConc(key) :
     /\ ConcAt(i) > 0
     /\ \A j \in KnownConc(key) : j < i => ConcAt(j) < ConcAt(i)}

\* the largest position of a set of positions, 0 for none
Last(rows) == IF rows = {} THEN 0 ELSE CHOOSE i \in rows : \A j \in rows : j <= i

\* the smallest position of a non-empty set of positions
First(rows) == CHOOSE i \in rows : \A j \in rows : i <= j

\* C17 (as stated): the date of a hotspot is the date of the feature that
\* last raised the maximum ratio of its group; no other feature gives it.
C17_DateOfLastRatioRaiser ==
  HotspotsReturned =>
    \A n \in 1..Len(viewCall.aggs) :
      HotspotsOf(viewCall.aggs[n].key) # {} =>
        HotspotOf(viewCall.aggs[n].key)["date_prelevement"] =
          IF RatioRaisers(viewCall.aggs[n].key) = {} THEN None
          ELSE DateAt(Last(RatioRaisers(viewCall.aggs[n].key)))

\* the dated features that raise the maximum concentration after position p
DatedConcRaisersAfter(key, p) ==
  {i \in ConcRaisers(key) : i > p /\ ~IsNone(DateAt(i))}

\* the date a group ends with
GroupDate(key) ==
  IF RatioRaisers(key) # {} /\ ~IsNone(DateAt(Last(RatioRaisers(key))))
  THEN DateAt(Last(RatioRaisers(key)))
  ELSE IF DatedConcRaisersAfter(key, Last(RatioRaisers(key))) = {} THEN None
  ELSE DateAt(First(DatedConcRaisersAfter(key, Last(RatioRaisers(key)))))

\* C17 (amended): the date of a hotspot is the date of the feature that last
\* strictly raised the maximum ratio of its group when that feature has a
\* date; when no feature has a ratio or that feature has no date, it is the
\* date of the first dated feature after it that strictly raised the
\* maximum concentration of the group, null when there is none.
C17_DateOfLastRaiserElseConcentration ==
  HotspotsReturned =>
    \A n \in 1..Len(viewCall.aggs) :
      /\ viewCall.aggs[n].agg.date_prelevement = GroupDate(viewCall.aggs[n].key)
      /\ HotspotsOf(viewCall.aggs[n].key) # {} =>
           HotspotOf(viewCall.aggs[n].key)["date_prelevement"]
             = GroupDate(viewCall.aggs[n].key)

\* a hotspot whose maximum ratio was raised twice, dated by the second
\* raiser, and a hotspot without any ratio dated by a concentration
C17_Witness_SecondRaiserAndFallback ==
  /\ HotspotsReturned
  /\ \E n \in 1..Len(viewCall.aggs) :
       /\ Cardinality(RatioRaisers(viewCall.aggs[n].key)) = 2
       /\ HotspotsOf(viewCall.aggs[n].key) # {}
       /\ HotspotOf(viewCall.aggs[n].key)["date_prelevement"]
            = DateAt(Last(RatioRaisers(viewCall.aggs[n].key)))
       /\ HotspotOf(viewCall.aggs[n].key)["date_prelevement"]
            # DateAt(First(RatioRaisers(viewCall.aggs[n].key)))
  /\ \E n \in 1..Len(viewCall.aggs) :
       /\ RatioRaisers(viewCall.aggs[n].key) = {}
       /\ HotspotsOf(viewCall.aggs[n].key) # {}
       /\ ~IsNone(HotspotOf(viewCall.aggs[n].key)["date_prelevement"])

\* the maximum ratio of the group of a hotspot, before it is rounded
MaxRatioOf(key) ==
  viewCall.aggs[CHOOSE n \in 1..Len(viewCall.aggs) : viewCall.aggs[n].key = key]
    .agg.max_ratio_seuil_sanitaire

\* the keys of the emitted hotspots
EmittedKeys ==
  {HotspotKey(viewCall.out_features[i].properties) : i \in 1..Len(viewCall.out_features)}

\* the size before rounding: 4 up to ratio 1 or unknown, 0.75 per unit of
\* ratio up to ratio 10, the same from 10 on
BaseSize(max_ratio) ==
  IF IsNone(max_ratio) \/ max_ratio.v <= Scale THEN 4 * Scale
  ELSE IF max_ratio.v >= 10 * Scale THEN 4 * Scale + (27 * Scale) \div 4
  ELSE 4 * Scale + (3 * (max_ratio.v - Scale)) \div 4

\* C18 (as stated): taille_mm is the minimum 4 for a maximum ratio <= 1 or
\* unknown, linear up to ratio 10 and constant above, non-decreasing in the
\* ratio, raised by a fixed bonus under the environmental flag; it stays in
\* 4..12 mm; taille_inner_mm is at least 1.5 and at most taille_mm.
C18_SizeWithinSymbologyRange ==
  HotspotsReturned =>
    /\ \A k \in EmittedKeys :
         /\ HotspotOf(k)["taille_mm"].v =
              Round(BaseSize(MaxRatioOf(k))
                      + (IF HotspotOf(k)["depassement_seuil_nqe"].v
                         THEN (3 * Scale) \div 2 ELSE 0),
                    Scale \div 10)
         /\ HotspotOf(k)["taille_mm"].v >= 4 * Scale
         /\ HotspotOf(k)["taille_mm"].v <= 12 * Scale
         /\ 2 * HotspotOf(k)["taille_inner_mm"].v >= 3 * Scale
         /\ HotspotOf(k)["taille_inner_mm"].v <= HotspotOf(k)["taille_mm"].v
    /\ \A k1, k2 \in EmittedKeys :
         (/\ HotspotOf(k1)["depassement_seuil_nqe"] = HotspotOf(k2)["depassement_seuil_nqe"]
          /\ ~IsNone(MaxRatioOf(k1)) /\ ~IsNone(MaxRatioOf(k2))
          /\ MaxRatioOf(k1).v <= MaxRatioOf(k2).v)
           => HotspotOf(k1)["taille_mm"].v <= HotspotOf(k2)["taille_mm"].v

\* the filters of the rules of _hotspot_rules_and_symbols, i in range(12)
HotspotRuleFilters ==
  [i \in 0..11 |-> [type_depassement |-> (i \div 4) + 1, classe_taille |-> (i % 4) + 1]]

\* the rules whose filter a hotspot satisfies
MatchingRules(props) ==
  {i \in DOMAIN HotspotRuleFilters :
     /\ PyEq(props["type_depassement"], I(HotspotRuleFilters[i].type_depassement))
     /\ PyEq(props["classe_taille"], I(HotspotRuleFilters[i].classe_taille))}

\* the maximum ratios from 0 to 13 in quarters, in ascending order
RatioSample(k) == F((k * Scale) \div 4)

\* the ratio a size is computed from, 1.0 standing for an unknown one
RatioOr1(max_ratio) == IF IsNone(max_ratio) THEN Scale ELSE max_ratio.v

\* C19: every hotspot has a size class in 1..4 given by the breakpoints 9.5,
\* 7.5 and 5.5 on taille_mm, non-decreasing in the maximum ratio, and a type
\* in 1..3, and satisfies the filter of exactly one of the 12 style rules.
C19_SizeClassAndOneRule ==
  HotspotsReturned =>
    /\ \A k \in EmittedKeys :
         /\ HotspotOf(k)["classe_taille"] =
              I(IF 2 * HotspotOf(k)["taille_mm"].v >= 19 * Scale THEN 4
                ELSE IF 2 * HotspotOf(k)["taille_mm"].v >= 15 * Scale THEN 3
                ELSE IF 2 * HotspotOf(k)["taille_mm"].v >= 11 * Scale THEN 2
                ELSE 1)
         /\ HotspotOf(k)["classe_taille"].v \in 1..4
         /\ HotspotOf(k)["type_depassement"].t = "int"
         /\ HotspotOf(k)["type_depassement"].v \in 1..3
         /\ Cardinality(MatchingRules(HotspotOf(k))) = 1
    /\ \A k1, k2 \in EmittedKeys :
         (/\ HotspotOf(k1)["depassement_seuil_nqe"] = HotspotOf(k2)["depassement_seuil_nqe"]
          /\ RatioOr1(MaxRatioOf(k1)) <= RatioOr1(MaxRatioOf(k2)))
           => HotspotOf(k1)["classe_taille"].v <= HotspotOf(k2)["classe_taille"].v
    /\ \A nqe \in BOOLEAN :
         /\ \A k \in 0..51 :
              ClasseTaille(TailleMm(RatioSample(k), nqe))
                <= ClasseTaille(TailleMm(RatioSample(k + 1), nqe))
         /\ ClasseTaille(TailleMm(None, nqe)) = ClasseTaille(TailleMm(RatioSample(4), nqe))

\* two hotspots with the same environmental flag in one view, of the
\* smallest and of the largest size class, matched by different rules
C19_Witness_ClassesOneAndFour ==
  /\ HotspotsReturned
  /\ \E k1, k2 \in EmittedKeys :
       /\ HotspotOf(k1)["classe_taille"] = I(1)
       /\ HotspotOf(k2)["classe_taille"] = I(4)
       /\ HotspotOf(k1)["depassement_seuil_nqe"] = HotspotOf(k2)["depassement_seuil_nqe"]
       /\ MatchingRules(HotspotOf(k1)) # MatchingRules(HotspotOf(k2))

\* C20: the type of a hotspot is 1 iff its group has a sanitary exceedance
\* and the environmental flag, 2 iff it has the flag and no sanitary
\* exceedance, 3 iff it has a sanitary exceedance and no flag; a hotspot of
\* type 3 has at least one sanitary exceedance.
C20_TypeByPriority ==
  HotspotsReturned =>
    \A k \in EmittedKeys :
      LET h == HotspotOf(k)
      IN /\ (h["type_depassement"] = I(1))
              = (h["n_depassements"].v > 0 /\ h["depassement_seuil_nqe"].v)
         /\ (h["type_depassement"] = I(2))
              = (h["n_depassements"].v = 0 /\ h["depassement_seuil_nqe"].v)
         /\ (h["type_depassement"] = I(3))
              = (h["n_depassements"].v > 0 /\ ~h["depassement_seuil_nqe"].v)
         /\ h["type_depassement"] = I(3) => h["n_depassements"].v >= 1

\* one view holding a hotspot of each type
C20_Witness_ThreeTypes ==
  /\ HotspotsReturned
  /\ \A t \in 1..3 : \E k \in EmittedKeys : HotspotOf(k)["type_depassement"] = I(t)

\* ------------------------------------------------------------------------
\* The yearly rollup (src/sig_views.py, export_agregations_ppp_par_annee)
\* ------------------------------------------------------------------------

\* the characters of the texts of the model, in code point order
CodePoints == " -0123456789ABCDEFGHIJKLMNOPQRSTUVWXYZabcdefghijklmnopqrstuvwxyzéô"

CodePoint(c) == CHOOSE i \in 1..Len(CodePoints) : Ch(CodePoints, i) = c

\* a < b on str
RECURSIVE StrLt(_, _)
StrLt(a, b) ==
  IF a = "" THEN b # ""
  ELSE IF b = "" THEN FALSE
  ELSE IF Ch(a, 1) = Ch(b, 1) THEN StrLt(SubSeq(a, 2, Len(a)), SubSeq(b, 2, Len(b)))
  ELSE CodePoint(Ch(a, 1)) < CodePoint(Ch(b, 1))

\* a < b on tuples of str
RECURSIVE TupleLt(_, _)
TupleLt(a, b) ==
  IF a = <<>> THEN b # <<>>
  ELSE IF b = <<>> THEN FALSE
  ELSE IF a[1] = b[1] THEN TupleLt(Tail(a), Tail(b))
  ELSE StrLt(a[1], b[1])

\* the header row of the CSV
AGREGATIONS_HEADER ==
  <<"type_eau", "lieu", "commune", "substance", "usage_ppp", "annee",
    "n_prelevements", "concentration_moyenne_ugl">>

\* `not lieu or not substance or not annee`
RollupSkipped(props) ==
  \/ ~Truthy(PyOr(Get(props, "lieu"), S("")))
  \/ ~Truthy(Get(props, "substance"))
  \/ ~Truthy(Annee(Get(props, "date_prelevement")))

\* annee.strip()[:4]
RollupAnnee(props) == Prefix(Strip(Annee(Get(props, "date_prelevement")).v), 4)

\* key = (str(type_eau), str(lieu), str(substance).strip(), annee)
RollupKey(props) ==
  <<PyStr(PyOr(Get(props, "type_eau"), S(""))), PyStr(PyOr(Get(props, "lieu"), S(""))),
    Strip(PyStr(Get(props, "substance"))), RollupAnnee(props)>>

\* the aggregate created for the first feature of a key
NewRollup(props) ==
  [type_eau |-> PyOr(Get(props, "type_eau"), S("")),
   lieu |-> PyOr(Get(props, "lieu"), S("")),
   commune |-> Get(props, "commune"),
   substance |-> Get(props, "substance"),
   usage_ppp |-> Get(props, "usage_ppp"),
   annee |-> RollupAnnee(props),
   n_prelevements |-> 0,
   sum_ugl |-> 0,
   count_ugl |-> 0]

\* the body of the loop on the aggregate of the feature's key; float()
\* raising leaves the sum and its count as they are
RollupAdd(agg, conc) ==
  IF IsNone(conc) \/ ~PyFloat(conc).ok
  THEN [agg EXCEPT !.n_prelevements = @ + 1]
  ELSE [agg EXCEPT !.n_prelevements = @ + 1,
                   !.sum_ugl = @ + PyFloat(conc).v,
                   !.count_ugl = @ + 1]

\* aggs[key], created when missing; aggs keeps its insertion order
WithRollup(aggs, props) ==
  IF \E i \in 1..Len(aggs) : aggs[i].key = RollupKey(props) THEN aggs
  ELSE Append(aggs, [key |-> RollupKey(props), agg |-> NewRollup(props)])

\* one iteration of the aggregation loop
RollupFeature(aggs, props) ==
  IF RollupSkipped(props) THEN aggs
  ELSE [i \in 1..Len(WithRollup(aggs, props)) |->
          IF WithRollup(aggs, props)[i].key = RollupKey(props)
          THEN [WithRollup(aggs, props)[i] EXCEPT
                  !.agg = RollupAdd(@, Get(props, "concentration_ugl"))]
          ELSE WithRollup(aggs, props)[i]]

\* aggs after the first n features
RECURSIVE RollupAggs(_, _)
RollupAggs(fs, n) ==
  IF n = 0 THEN <<>> ELSE RollupFeature(RollupAggs(fs, n - 1), fs[n].properties)

\* key=lambda x: (x["annee"], x["type_eau"], x["lieu"] or "", x["substance"])
RollupSortKey(agg) ==
  <<agg.annee, PyStr(agg.type_eau), PyStr(PyOr(agg.lieu, S(""))), PyStr(agg.substance)>>

\* the index in sorted(aggs.values(), key=...) of the aggregate at index i:
\* the sort is stable
RollupSortedIndex(aggs, i) ==
  1 + Cardinality({j \in 1..Len(aggs) :
                     \/ TupleLt(RollupSortKey(aggs[j].agg), RollupSortKey(aggs[i].agg))
                     \/ (RollupSortKey(aggs[j].agg) = RollupSortKey(aggs[i].agg) /\ j < i)})

\* f"{x:.4f}" of a quotient sum / count of floats held in 1/Scale
Fixed4(sum, count) ==
  LET q == IF 2 * (sum % count) > count
              \/ (2 * (sum % count) = count /\ (sum \div count) % 2 = 1)
           THEN (sum \div count) + 1 ELSE sum \div count
  IN NatToStr(q \div Scale) \o "."
       \o SubSeq("0000", 1, 4 - Len(NatToStr(q % Scale))) \o NatToStr(q % Scale)

\* the same mean with 0 for an empty group
RollupMean_zero_when_unknown(agg) ==
  IF agg.count_ugl # 0 THEN Fixed4(agg.sum_ugl, agg.count_ugl) ELSE "0.0000"

\* moy = (sum_ugl / count_ugl) if count_ugl else "", as written
RollupMean(agg) ==
  IF agg.count_ugl # 0 THEN Fixed4(agg.sum_ugl, agg.count_ugl) ELSE ""

\* the row written for an aggregate
RollupRow(agg) ==
  <<PyStr(PyOr(agg.type_eau, S(""))), PyStr(PyOr(agg.lieu, S(""))),
    PyStr(PyOr(agg.commune, S(""))), PyStr(PyOr(agg.substance, S(""))),
    PyStr(PyOr(agg.usage_ppp, S(""))), agg.annee,
    NatToStr(agg.n_prelevements), RollupMean(agg)>>

\* the rows written after the header
RollupRows(aggs) ==
  [p \in 1..Len(aggs) |->
     RollupRow(aggs[CHOOSE i \in 1..Len(aggs) : RollupSortedIndex(aggs, i) = p].agg)]

\* a CSV file
CsvFile(header, rows) == [t |-> "csv", header |-> header, rows |-> rows]

\* the locals of export_agregations_ppp_par_annee when it returns
RollupLocals(fs, aggs) ==
  [view |-> "agregations", features |-> fs, wrote |-> TRUE,
   aggs |-> aggs, rows |-> RollupRows(aggs)]

\* ------------------------------------------------------------------------
\* Feature lists given to the yearly rollup
\* ------------------------------------------------------------------------

RollupRowOf(substance, type_eau, lieu, date_prel, conc_ugl) ==
  HotspotRow(substance, type_eau, lieu, date_prel, conc_ugl, None, None, None)

RollupInputRows ==
  {RollupRowOf(S("Atrazine"), S("surface"), S("Saône"), S("2020-01-10"), F(Scale)),
   RollupRowOf(S("Atrazine"), S("surface"), S("Saône"), S("2020-05-05"), F(2 * Scale)),
   RollupRowOf(S("Atrazine"), S("surface"), S("Saône"), S("2020-09-09"), None),
   RollupRowOf(S("Atrazine"), S("surface"), S("Saône"), S("2021-02-02"), F(500)),
   RollupRowOf(S(" Atrazine "), S("surface"), S("Saône"), S("2020-03-03"), S("abc")),
   RollupRowOf(S("Glyphosate"), None, S("Ouche"), S("2020-06-01"), None),
   RollupRowOf(S("Glyphosate"), None, S("Ouche"), S("2020-07-01"), S("0.25")),
   RollupRowOf(None, S("surface"), S("Saône"), S("2020-01-10"), F(Scale)),
   RollupRowOf(S("Atrazine"), S("surface"), S(""), S("2020-01-10"), F(Scale)),
   RollupRowOf(S("Atrazine"), S("surface"), S("Saône"), None, F(Scale)),
   RollupRowOf(S("Atrazine"), S("surface"), S("Saône"), I(2020), F(2 * Scale))}

RollupInputs ==
  UNION {[1..n -> RollupInputRows] : n \in 0..MaxRows}

\* ------------------------------------------------------------------------
\* The yearly rollup as a state machine
\* ------------------------------------------------------------------------

InitAgregations ==
  /\ PipelineAtRest
  /\ sigFeatures \in RollupInputs
  /\ viewCall = NoViewCall
  /\ prevCall = NoViewCall
  /\ viewFiles = NoViewFiles
  /\ fetch = NoFetch

\* export_agregations_ppp_par_annee(sig_path, out_path): an empty feature
\* list writes the header alone
ExportAgregations ==
  /\ viewCall' = RollupLocals(sigFeatures, RollupAggs(sigFeatures, Len(sigFeatures)))
  /\ viewFiles' = [viewFiles EXCEPT
                     !.agregations = CsvFile(AGREGATIONS_HEADER, viewCall'.rows)]
  /\ prevCall' = viewCall
  /\ UNCHANGED <<sigFeatures, pipelineVars, fetch>>

NextAgregations == ExportAgregations

SpecAgregations == InitAgregations /\ [][NextAgregations]_vars

\* ------------------------------------------------------------------------
\* Properties of the yearly rollup
\* ------------------------------------------------------------------------

\* the rollup export returned
RollupReturned == viewCall.view = "agregations"

\* the features with a location, a substance and a sampling date
WithLieuSubstanceDate ==
  {i \in 1..Len(viewCall.features) :
     /\ Truthy(Get(RowProps(i), "lieu"))
     /\ Truthy(Get(RowProps(i), "substance"))
     /\ Truthy(Get(RowProps(i), "date_prelevement"))}

\* the features of the group a CSV row stands for
RowGroup(row) ==
  {i \in WithLieuSubstanceDate :
     RollupKey(RowProps(i)) = <<row[1], row[2], Strip(row[4]), row[6]>>}

\* the features of a set with a known concentration
KnownIn(rows) ==
  {i \in rows : /\ ~IsNone(Get(RowProps(i), "concentration_ugl"))
                /\ PyFloat(Get(RowProps(i), "concentration_ugl")).ok}

\* the sum of the known concentrations of a set of features
RECURSIVE SumConc(_)
SumConc(rows) ==
  IF rows = {} THEN 0
  ELSE ConcAt(Last(rows)) + SumConc(rows \ {Last(rows)})

\* the sum of the n_prelevements column over the first n rows
RECURSIVE SumCounts(_, _)
SumCounts(rows, n) ==
  IF n = 0 THEN 0 ELSE DigitsToInt(rows[n][7]) + SumCounts(rows, n - 1)

\* C21: every group (type, location, substance, year) has one row; its
\* n_prelevements is the number of features of the group, its mean the sum
\* of the known concentrations over their number, blank when none is known;
\* the counts sum to the number of features with location, substance and
\* year.
C21_RollupCountAndMean ==
  RollupReturned =>
    LET rows == viewFiles.agregations.rows
    IN /\ \A i \in WithLieuSubstanceDate :
            Cardinality({p \in 1..Len(rows) : i \in RowGroup(rows[p])}) = 1
       /\ \A p \in 1..Len(rows) :
            /\ RowGroup(rows[p]) # {}
            /\ rows[p][7] = NatToStr(Cardinality(RowGroup(rows[p])))
            /\ rows[p][8] =
                 IF KnownIn(RowGroup(rows[p])) = {} THEN ""
                 ELSE Fixed4(SumConc(KnownIn(RowGroup(rows[p]))),
                             Cardinality(KnownIn(RowGroup(rows[p]))))
       /\ SumCounts(rows, Len(rows)) = Cardinality(WithLieuSubstanceDate)

\* a group of three features with concentrations 1.0, 2.0 and null: mean
\* 1.5 and count 3
C21_Witness_MeanOfTwoCountOfThree ==
  /\ RollupReturned
  /\ \E p \in 1..Len(viewFiles.agregations.rows) :
       /\ viewFiles.agregations.rows[p][7] = "3"
       /\ viewFiles.agregations.rows[p][8] = "1.5000"
       /\ {Get(RowProps(i), "concentration_ugl") :
             i \in RowGroup(viewFiles.agregations.rows[p])}
            = {F(Scale), F(2 * Scale), None}

\* ------------------------------------------------------------------------
\* Sequences of view exports over a feature file that changes
\* ------------------------------------------------------------------------

\* a feature carrying what each of the three views reads
FullFeature(code, annee, substance, date_prel, conc_ugl, ratio, sanitaire, nqe) ==
  ViewFeature([code_parametre |-> code, annee |-> annee, substance |-> substance,
               type_eau |-> S("surface"), lieu |-> S("Saône"),
               date_prelevement |-> date_prel, concentration_ugl |-> conc_ugl,
               ratio_seuil_sanitaire |-> ratio, depassement_seuil_sanitaire |-> sanitaire,
               depassement_seuil_nqe |-> nqe])

FeatureX ==
  FullFeature(S("1107"), S("2020"), S("Atrazine"), S("2020-05-01"),
              F(3000), F(3 * Scale), S("oui"), None)

FeatureY ==
  FullFeature(S("1506"), S("2021"), S("Glyphosate"), S("2021-03-01"),
              F(200), F(2000), S("non"), None)

\* the feature lists found at sig_path; <<>> also stands for a missing file
SigContents == {<<>>, <<FeatureX>>, <<FeatureY>>, <<FeatureX, FeatureY>>}

InitViews ==
  /\ PipelineAtRest
  /\ sigFeatures \in SigContents
  /\ viewCall = NoViewCall
  /\ prevCall = NoViewCall
  /\ viewFiles = NoViewFiles
  /\ fetch = NoFetch

\* the file at sig_path is rewritten by export_sig_geojson, or removed
WriteSig ==
  /\ sigFeatures' \in SigContents
  /\ UNCHANGED <<viewCall, prevCall, viewFiles, pipelineVars, fetch>>

NextViews == ExportTop10 \/ ExportHotspots \/ ExportAgregations \/ WriteSig

SpecViews == InitViews /\ [][NextViews]_vars

\* ------------------------------------------------------------------------
\* Properties of sequences of view exports
\* ------------------------------------------------------------------------

\* the last two exports were the same view over the same feature list
SameViewTwice ==
  /\ viewCall.view # "none"
  /\ prevCall.view = viewCall.view
  /\ prevCall.features = viewCall.features

\* a step that is a view export
ExportStep == viewCall' # viewCall \/ prevCall' # prevCall

C27_FileHoldsViewOfLastCall ==
  /\ viewCall.view = "top10"
       => viewFiles.top10 = FeatureCollection(viewCall.out_features)
  /\ viewCall.view = "hotspots"
       => viewFiles.hotspots = FeatureCollection(viewCall.out_features)
  /\ viewCall.view = "agregations"
       => viewFiles.agregations = CsvFile(AGREGATIONS_HEADER, viewCall.rows)


\* ------------------------------------------------------------------------
\* The usages table: lookups and rebuilds (src/ppp_dict.py)
\* ------------------------------------------------------------------------

\* str(sub.get(k) or "")
LabelOf(sub, k) == PyStr(PyOr(Get(sub, k), S("")))

\* the lower-cased labels of a catalog entry, joined by spaces
C3poText(sub) ==
  Lower(LabelOf(sub, "libelle_parametre_sandre") \o " " \o LabelOf(sub, "libelle_ephy")
        \o " " \o LabelOf(sub, "libelle_bnvd") \o " " \o LabelOf(sub, "libelle_agritox")
        \o " " \o LabelOf(sub, "libelle_eupdb"))

\* the Sandre code of a catalog entry as the CSV cell
C3poCode(sub) ==
  IF IsNone(Get(sub, "code_parametre_sandre")) THEN ""
  ELSE Strip(PyStr(Get(sub, "code_parametre_sandre")))

\* the first CAS number the catalog entry carries
C3poCas(sub) ==
  Strip(PyStr(PyOr(PyOr(PyOr(PyOr(PyOr(Get(sub, "cas_parametre_sandre"),
                                       Get(sub, "cas_agritox")),
                                  Get(sub, "cas_ephy")),
                             Get(sub, "cas_bnvd")),
                        Get(sub, "cas_eupdb")),
                   S(""))))

\* a catalog entry gets a line when it has a code and a detected category
C3poWritten(sub) == C3poCode(sub) # "" /\ Truthy(C3poKeywordUsage(C3poText(sub)))

\* the line written for a catalog entry
C3poCsvRow(sub) ==
  [code_parametre |-> S(C3poCode(sub)),
   cas |-> S(C3poCas(sub)),
   ppp_usage |-> C3poKeywordUsage(C3poText(sub)),
   ppp_usages_typiques |-> PyOr(UsagesTypiquesDe(C3poKeywordUsage(C3poText(sub))), S(""))]

\* the data rows build_ppp_usages_from_c3po writes for data["apercu"]
C3poCsvRows(apercu) ==
  [i \in 1..Len(SelectSeq(apercu, LAMBDA sub : C3poWritten(sub)))
     |-> C3poCsvRow(SelectSeq(apercu, LAMBDA sub : C3poWritten(sub))[i])]

\* is_true(key) of _usage_from_fonctions_row
IsTrue(row, key) == Lower(Cell(row, key)) \in {"true", "1", "oui", "yes"}

\* _usage_from_fonctions_row: the first true column in priority order
UsageFromFonctionsRow(row) ==
  IF IsTrue(row, "herbicide") THEN S("herbicide")
  ELSE IF IsTrue(row, "insecticide") THEN S("insecticide")
  ELSE IF IsTrue(row, "fongicide") THEN S("fongicide")
  ELSE IF IsTrue(row, "acaricide") THEN S("acaricide")
  ELSE IF IsTrue(row, "bactericide") THEN S("bactericide")
  ELSE IF IsTrue(row, "molluscicide") THEN S("molluscicide")
  ELSE IF IsTrue(row, "nematicide") THEN S("nématicide")
  ELSE IF IsTrue(row, "regulateur_croissance") THEN S("régulateur de croissance")
  ELSE IF IsTrue(row, "rodenticide") THEN S("rodenticide")
  ELSE IF IsTrue(row, "autre_fonction") THEN S("autre")
  ELSE None

\* _generic_usages_typiques
GenericUsagesTypiques(usage) ==
  CASE usage = S("bactericide") ->
         S("Lutte contre les bactéries (traitements des cultures ou des stockages).")
    [] usage = S("molluscicide") -> S("Lutte contre les limaces et mollusques.")
    [] usage = S("régulateur de croissance") ->
         S("Régulation de la croissance des plantes (antigerminatif, etc.).")
    [] usage = S("autre") ->
         S("Autre usage phytopharmaceutique ; consulter e-phy/INRS pour le détail.")
    [] OTHER -> PyOr(UsagesTypiquesDe(usage), S(""))

\* id_bnvd -> (code, cas) after one line of substances_identification.csv
IdMapRow(id_map, row) ==
  IF Cell(row, "code_parametre_sandre") = "" \/ Cell(row, "id_bnvd") = "" THEN id_map
  ELSE DictSet(id_map, Cell(row, "id_bnvd"),
               [code |-> Cell(row, "code_parametre_sandre"),
                cas |-> Strip(PyOr(PyOr(Get(row, "cas_parametre_sandre"),
                                        Get(row, "cas_bnvd")), S("")).v)])

RECURSIVE IdMap(_, _)
IdMap(id_map, rows) ==
  IF rows = <<>> THEN id_map ELSE IdMap(IdMapRow(id_map, Head(rows)), Tail(rows))

\* the output line of a substance; no optional source file is present, so
\* the six extra columns are empty
DictionnaireRow(ids, usage) ==
  [code_parametre |-> S(ids.code), cas |-> S(ids.cas), ppp_usage |-> usage,
   ppp_usages_typiques |-> GenericUsagesTypiques(usage),
   statut_ue |-> S(""), date_expiration |-> S(""), autorisation_france |-> S(""),
   mentions |-> S(""), pnec_ugl |-> S(""), mentions_danger |-> S("")]

\* one line of substances_fonctions.csv: unknown ids and codes already seen
\* are skipped, a code without category is seen but not written
FonctionsRow(acc, row, id_map) ==
  IF Cell(row, "id_bnvd") \notin DOMAIN id_map THEN acc
  ELSE IF id_map[Cell(row, "id_bnvd")].code \in acc.seen_codes THEN acc
  ELSE [seen_codes |-> acc.seen_codes \cup {id_map[Cell(row, "id_bnvd")].code},
        rows_out |-> IF ~Truthy(UsageFromFonctionsRow(row)) THEN acc.rows_out
                     ELSE Append(acc.rows_out,
                                 DictionnaireRow(id_map[Cell(row, "id_bnvd")],
                                                 UsageFromFonctionsRow(row)))]

RECURSIVE FonctionsRows(_, _, _)
FonctionsRows(acc, rows, id_map) ==
  IF rows = <<>> THEN acc
  ELSE FonctionsRows(FonctionsRow(acc, Head(rows), id_map), Tail(rows), id_map)

\* the data rows build_ppp_usages_from_sources_dictionnaire writes
DictionnaireCsvRows(sources) ==
  FonctionsRows([seen_codes |-> {}, rows_out |-> <<>>], sources.fonctions,
                IdMap(EmptyDict, sources.identification)).rows_out

IdentificationRow(id_bnvd, code, cas, cas_bnvd) ==
  [id_bnvd |-> id_bnvd, code_parametre_sandre |-> code,
   cas_parametre_sandre |-> cas, cas_bnvd |-> cas_bnvd]

FonctionsRowOf(id_bnvd, herbicide, insecticide, fongicide, autre_fonction) ==
  [id_bnvd |-> id_bnvd, herbicide |-> herbicide, insecticide |-> insecticide,
   fongicide |-> fongicide, autre_fonction |-> autre_fonction]

\* the directories sources_dictionnaire a rebuild can be given: one with
\* both required files, one without substances_fonctions.csv
SourcesDictionnaires ==
  {[exists |-> TRUE,
    identification |->
      <<IdentificationRow(S("b1"), S("1105"), S(""), S("61-82-5")),
        IdentificationRow(S("b2"), S(" 1107 "), S("1912-24-9"), S("")),
        IdentificationRow(S("b3"), S(""), S("111-11-1"), S("")),
        IdentificationRow(S("b4"), S("1105"), S(""), S("")),
        IdentificationRow(S("b5"), S("1250"), S(""), S(""))>>,
    fonctions |->
      <<FonctionsRowOf(S("b2"), S("False"), S("True"), S("oui"), S("")),
        FonctionsRowOf(S("b1"), S(""), S(""), S(""), S("")),
        FonctionsRowOf(S("b4"), S("1"), S(""), S(""), S("")),
        FonctionsRowOf(S("b3"), S("True"), S(""), S(""), S("")),
        FonctionsRowOf(S("b5"), S("no"), S("0"), S(""), S(" YES ")),
        FonctionsRowOf(S("b9"), S("True"), S(""), S(""), S(""))>>],
   [exists |-> FALSE, identification |-> <<>>, fonctions |-> <<>>]}

\* the catalog files run_analysis can leave on disk
CatalogFiles ==
  {C3poFile,
   [exists |-> TRUE, readable |-> TRUE, apercu |-> SubSeq(C3poApercu, 2, 4)],
   [exists |-> FALSE, readable |-> FALSE, apercu |-> <<>>]}

\* the rows a rebuild from each catalog file writes
C3poCsvRowsOf == [file \in CatalogFiles |-> C3poCsvRows(file.apercu)]

\* the rows a rebuild from each sources directory writes
DictionnaireCsvRowsOf == [sources \in SourcesDictionnaires |-> DictionnaireCsvRows(sources)]

\* the contents the usages file can be given by hand
UsagesFiles ==
  {[exists |-> TRUE, rows |-> UsagesRows],
   [exists |-> TRUE, rows |-> SubSeq(UsagesRows, 2, 3)],
   [exists |-> FALSE, rows |-> <<>>]}

\* the arguments of lookup_ppp_usage
LookupCodes == {None, S("1105"), S(" 1107 "), S("1250")}
LookupCas == {None, S("1912-24-9"), S("61-82-5")}

\* output_path of a rebuild: the configured file (None) or another file
OutputPaths == {"configured", "other"}

\* no function of ppp_dict has been called
NoPppCall == [op |-> "none"]

InitCache ==
  /\ phase = "returned"
  /\ features = <<>>
  /\ call = NoPppCall
  /\ nDone = 0
  /\ THRESHOLDS_CACHE = None
  /\ PPP_USAGES_BY_CODE = None
  /\ PPP_USAGES_BY_CAS = None
  /\ C3PO_BY_PARAM = LoadC3poSubstances(C3poFile)
  /\ thresholdsFile = [exists |-> TRUE, readable |-> TRUE, rows |-> SeuilsRows]
  /\ usagesFile \in UsagesFiles
  /\ c3poFile \in CatalogFiles
  /\ sigFeatures = <<>>
  /\ viewCall = NoViewCall
  /\ prevCall = NoViewCall
  /\ viewFiles = NoViewFiles
  /\ fetch = NoFetch

\* what no call of ppp_dict touches
cacheFrame ==
  <<phase, features, nDone, THRESHOLDS_CACHE, C3PO_BY_PARAM, thresholdsFile, viewVars, fetch>>

\* lookup_ppp_usage(code_parametre, cas_parametre): the tables are loaded
\* and memoized, the file is opened only when nothing is memoized
LookupPppUsage ==
  LET tabs == LoadPppUsages(PPP_USAGES_BY_CODE, PPP_USAGES_BY_CAS, usagesFile)
  IN \E code_parametre \in LookupCodes, cas_parametre \in LookupCas :
       /\ call' = [op |-> "lookup_ppp_usage",
                   opened |-> (IsNone(PPP_USAGES_BY_CODE) \/ IsNone(PPP_USAGES_BY_CAS))
                                /\ usagesFile.exists,
                   result |-> lookup_ppp_usage(code_parametre, cas_parametre, tabs)]
       /\ PPP_USAGES_BY_CODE' = D(tabs.by_code)
       /\ PPP_USAGES_BY_CAS' = D(tabs.by_cas)
       /\ UNCHANGED <<usagesFile, c3poFile, cacheFrame>>

\* a rebuild that wrote rows to output_path and returned: the configured
\* file is rewritten only when it is the output, the memo is dropped
RebuildReturns(op, output_path, rows) ==
  /\ call' = [op |-> op, raised |-> FALSE, output_path |-> output_path, rows |-> rows]
  /\ usagesFile' = IF output_path = "configured" THEN [exists |-> TRUE, rows |-> rows]
                   ELSE usagesFile
  /\ PPP_USAGES_BY_CODE' = None
  /\ PPP_USAGES_BY_CAS' = None
  /\ UNCHANGED <<c3poFile, cacheFrame>>

\* a rebuild that raised before writing anything
RebuildRaises(op, output_path) ==
  /\ call' = [op |-> op, raised |-> TRUE, output_path |-> output_path, rows |-> <<>>]
  /\ UNCHANGED <<usagesFile, PPP_USAGES_BY_CODE, PPP_USAGES_BY_CAS, c3poFile, cacheFrame>>

\* build_ppp_usages_from_c3po(output_path)
BuildPppUsagesFromC3po ==
  \E output_path \in OutputPaths :
    IF c3poFile.exists /\ c3poFile.readable
    THEN RebuildReturns("build_ppp_usages_from_c3po", output_path,
                        C3poCsvRowsOf[c3poFile])
    ELSE RebuildRaises("build_ppp_usages_from_c3po", output_path)

\* build_ppp_usages_from_sources_dictionnaire(sources_dir, output_path)
BuildPppUsagesFromSourcesDictionnaire ==
  \E output_path \in OutputPaths, sources \in SourcesDictionnaires :
    IF sources.exists
    THEN RebuildReturns("build_ppp_usages_from_sources_dictionnaire", output_path,
                        DictionnaireCsvRowsOf[sources])
    ELSE RebuildRaises("build_ppp_usages_from_sources_dictionnaire", output_path)

\* the usages file is edited, replaced or removed outside the program
EditUsagesFile ==
  /\ usagesFile' \in UsagesFiles
  /\ UNCHANGED <<call, PPP_USAGES_BY_CODE, PPP_USAGES_BY_CAS, c3poFile, cacheFrame>>

\* run_analysis rewrites the catalog file
WriteCatalog ==
  /\ c3poFile' \in {file \in CatalogFiles : file.exists}
  /\ UNCHANGED <<call, PPP_USAGES_BY_CODE, PPP_USAGES_BY_CAS, usagesFile, cacheFrame>>

NextCache ==
  \/ LookupPppUsage
  \/ BuildPppUsagesFromC3po
  \/ BuildPppUsagesFromSourcesDictionnaire
  \/ EditUsagesFile
  \/ WriteCatalog

SpecCache == InitCache /\ [][NextCache]_vars

\* ------------------------------------------------------------------------
\* Properties of the usages cache
\* ------------------------------------------------------------------------

\* both tables are memoized
Memoized == ~IsNone(PPP_USAGES_BY_CODE) /\ ~IsNone(PPP_USAGES_BY_CAS)

\* the tables a fresh read of a usages file gives
FreshTables(file) ==
  IF file.exists THEN UsageRows([by_code |-> EmptyDict, by_cas |-> EmptyDict], file.rows)
  ELSE [by_code |-> EmptyDict, by_cas |-> EmptyDict]

\* the memoized pair
MemoTables == [by_code |-> PPP_USAGES_BY_CODE.v, by_cas |-> PPP_USAGES_BY_CAS.v]

\* a step that is a rebuild call that returned
RebuildReturnStep ==
  \/ \E output_path \in OutputPaths :
       /\ c3poFile.exists /\ c3poFile.readable
       /\ RebuildReturns("build_ppp_usages_from_c3po", output_path,
                         C3poCsvRowsOf[c3poFile])
  \/ \E output_path \in OutputPaths, sources \in SourcesDictionnaires :
       /\ sources.exists
       /\ RebuildReturns("build_ppp_usages_from_sources_dictionnaire", output_path,
                         DictionnaireCsvRowsOf[sources])

C24_UnreadableFileNeverMemoized ==
  (thresholdsFile.exists /\ ~thresholdsFile.readable)
    => /\ IsNone(THRESHOLDS_CACHE)
       /\ call.loads_seuils => call.raised


\* C25 (as stated): no builder call raises, whatever the record, so the
\* loops of build_geojson_features are never left before their last record.
C25_BuildersNeverRaise == ~call.raised /\ phase # "raised"


\* ------------------------------------------------------------------------
\* The export step of `run` (src/main.py, _run_async, step 3)
\* ------------------------------------------------------------------------

\* main.py has been imported, and with it sig: the catalog index was loaded
\* from the file an earlier execution left, if any
InitRun ==
  /\ phase = "imported"
  /\ features = <<>>
  /\ call = NoCall
  /\ nDone = 0
  /\ THRESHOLDS_CACHE = None
  /\ PPP_USAGES_BY_CODE = None
  /\ PPP_USAGES_BY_CAS = None
  /\ c3poFile \in CatalogFiles
  /\ C3PO_BY_PARAM = LoadC3poSubstances(c3poFile)
  /\ \E env \in Environments :
       /\ thresholdsFile = env.thresholds
       /\ usagesFile = env.usages
  /\ sigFeatures = <<>>
  /\ viewCall = NoViewCall
  /\ prevCall = NoViewCall
  /\ viewFiles = NoViewFiles
  /\ fetch = NoFetch

\* step 2/5, cmd_analyze: run_analysis writes the catalog file; the index
\* held by sig is not touched
Analyze ==
  /\ phase = "imported"
  /\ phase' = "naiades"
  /\ c3poFile' \in {file \in CatalogFiles : file.exists}
  /\ UNCHANGED <<features, call, nDone, THRESHOLDS_CACHE, PPP_USAGES_BY_CODE,
                 PPP_USAGES_BY_CAS, C3PO_BY_PARAM, thresholdsFile, usagesFile,
                 viewVars, fetch>>

\* export_sig_geojson: the features build_geojson_features returned are
\* written to out_sig
ExportSigGeojson ==
  /\ phase = "returned"
  /\ phase' = "exported"
  /\ sigFeatures' = features
  /\ UNCHANGED <<features, call, nDone, THRESHOLDS_CACHE, PPP_USAGES_BY_CODE,
                 PPP_USAGES_BY_CAS, C3PO_BY_PARAM, thresholdsFile, usagesFile, c3poFile,
                 viewCall, prevCall, viewFiles, fetch>>

\* with --top10, the ranking view is exported first
RunTop10 == phase = "exported" /\ viewCall.view = "none" /\ ExportTop10

\* the hotspot view is exported from the file just written
RunHotspots == phase = "exported" /\ viewCall.view \in {"none", "top10"} /\ ExportHotspots

\* the yearly rollup is exported last
RunAgregations == phase = "exported" /\ viewCall.view = "hotspots" /\ ExportAgregations

NextRun ==
  \/ Analyze
  \/ NaiadesAnalyse
  \/ NaiadesDone
  \/ AdesAnalyse
  \/ AdesDone
  \/ ExportSigGeojson
  \/ RunTop10
  \/ RunHotspots
  \/ RunAgregations

SpecRun == InitRun /\ [][NextRun]_vars

\* ------------------------------------------------------------------------
\* Properties of the views over the persisted features
\* ------------------------------------------------------------------------

\* a persisted feature with a station, a parameter and a sanitary exceedance
PersistedExceedance(props) ==
  /\ Truthy(Get(props, "libelle_station"))
  /\ Truthy(Get(props, "code_parametre"))
  /\ Get(props, "ppp_depassement") = B(TRUE)

\* a persisted feature with a station, a parameter and a sampling date
PersistedDated(props) ==
  /\ Truthy(Get(props, "libelle_station"))
  /\ Truthy(Get(props, "code_parametre"))
  /\ Truthy(Get(props, "date_prelevement"))

\* C26 (as stated): over the file export_sig_geojson wrote, the hotspot view
\* emits a hotspot when some feature carries a sanitary exceedance, and the
\* yearly rollup emits a row when some feature has a location, a substance
\* and a sampling date.
C26_ViewsOfPersistedFeatures ==
  /\ (/\ phase = "exported"
      /\ viewCall.view = "hotspots"
      /\ \E i \in 1..Len(sigFeatures) : PersistedExceedance(sigFeatures[i].properties))
       => viewCall.out_features # <<>>
  /\ (/\ phase = "exported"
      /\ viewCall.view = "agregations"
      /\ \E i \in 1..Len(sigFeatures) : PersistedDated(sigFeatures[i].properties))
       => viewCall.rows # <<>>


\* C28 (as stated): once the analysis step has completed, the catalog index
\* the feature builder consults is the index of the catalog file that step
\* wrote.
C28_BuilderUsesCatalogOfThisRun ==
  (phase # "imported" /\ call.built) => C3PO_BY_PARAM = LoadC3poSubstances(c3poFile)


\* ------------------------------------------------------------------------
\* Fetch of the Naïades analyses (src/sources/naiades.py, src/hubeau.py)
\* ------------------------------------------------------------------------

\* the largest max_pages given to a fetch
MaxPages == 4

\* the largest number of pages the API holds for one query
MaxAvailable == 3

\* end of the historical window
FIN_HIST == "2018-12-31"

\* start of the NQE window when the configuration gives none
NQE_DEBUT_DEFAULT == "2019-01-01"

\* a <= b on str
StrLe(a, b) == a = b \/ StrLt(a, b)

Max(a, b) == IF a < b THEN b ELSE a

\* date_debut_eff, date_fin_eff, nqe_debut
DateDebutEff(a) == PyOr(PyOr(a.date_debut, a.cfg.date_debut), S(a.clock.debut_default)).v

DateFinEff(a) == PyOr(PyOr(a.date_fin, a.cfg.date_fin), S(a.clock.today)).v

NqeDebut(a) == PyOr(a.cfg.date_debut_nqe, S(NQE_DEBUT_DEFAULT)).v

\* split_nqe of fetch_naiades_analyses_dep
SplitNqe(a) ==
  /\ StrLe(NqeDebut(a), a.clock.today)
  /\ StrLt(DateDebutEff(a), NqeDebut(a)) \/ StrLe(NqeDebut(a), DateFinEff(a))

\* split_nqe of fetch_naiades_analyses_dep_async
SplitNqeAsync(a) ==
  /\ StrLe(NqeDebut(a), DateFinEff(a))
  /\ StrLt(DateDebutEff(a), NqeDebut(a))

\* one third of the budget before 2019, the rest for the NQE window
PagesHist(max_pages) == Max(1, max_pages \div 3)

PagesNqe(max_pages) == Max(1, max_pages - PagesHist(max_pages))

\* one call of _fetch
Window(d_debut, d_fin, pages) == [d_debut |-> d_debut, d_fin |-> d_fin, pages |-> pages]

\* the calls of _fetch, in order
Windows(split_nqe, a) ==
  IF split_nqe /\ StrLt(DateDebutEff(a), NqeDebut(a))
  THEN <<Window(DateDebutEff(a), FIN_HIST, PagesHist(a.max_pages)),
         Window(NqeDebut(a), DateFinEff(a), PagesNqe(a.max_pages))>>
  ELSE <<Window(DateDebutEff(a), DateFinEff(a), a.max_pages)>>

\* sorted(codes) of a set of codes
SortedCodes(codes) ==
  CHOOSE s \in [1..Cardinality(codes) -> codes] :
    \A i \in 1..Len(s), j \in 1..Len(s) : i < j => StrLt(s[i], s[j])

\* codes_ppp: the configured codes, else the sorted reference codes
CodesPpp(a) ==
  IF a.cfg.codes_parametre # <<>> THEN a.cfg.codes_parametre
  ELSE SortedCodes(a.pesticide_codes)

\* one paginated iteration: naiades_analyses(..., max_pages, code_parametre,
\* date_debut_prelevement, date_fin_prelevement)
PageIteration(w, max_pages, code_parametre) ==
  [date_debut_prelevement |-> w.d_debut, date_fin_prelevement |-> w.d_fin,
   max_pages |-> max_pages, code_parametre |-> code_parametre]

\* max_pages_code for the code at idx
MaxPagesCode(pages_restantes, n_codes, idx) ==
  Max(1, pages_restantes \div Max(1, n_codes - idx))

\* the loop over codes_ppp from idx on
RECURSIVE CodeIterations(_, _, _, _)
CodeIterations(w, codes_ppp, idx, pages_restantes) ==
  IF idx >= Len(codes_ppp) \/ pages_restantes <= 0 THEN <<>>
  ELSE <<PageIteration(w, MaxPagesCode(pages_restantes, Len(codes_ppp), idx),
                       S(codes_ppp[idx + 1]))>>
       \o CodeIterations(w, codes_ppp, idx + 1,
                         pages_restantes - MaxPagesCode(pages_restantes, Len(codes_ppp), idx))

\* _fetch(d_debut, d_fin, pages): the paginated iterations it starts
FetchIterations(w, a) ==
  IF w.pages <= 0 THEN <<>>
  ELSE IF Truthy(a.code_parametre) THEN <<PageIteration(w, w.pages, a.code_parametre)>>
  ELSE IF CodesPpp(a) = <<>> THEN <<PageIteration(w, w.pages, None)>>
  ELSE CodeIterations(w, CodesPpp(a), 0, w.pages)

\* the paginated iterations of one fetch, over its one or two windows
FetchPlan(windows, a) ==
  IF Len(windows) = 2
  THEN FetchIterations(windows[1], a) \o FetchIterations(windows[2], a)
  ELSE FetchIterations(windows[1], a)

\* the locals of a fetch that has just been called
FetchStarted(op, a, plan, sync_requests) ==
  [op |-> op, args |-> a, plan |-> plan, it |-> 1, page |-> 1,
   requests |-> <<>>, sync_requests |-> sync_requests]

\* the fetch has returned
FetchReturned == fetch.op # "none" /\ fetch.it > Len(fetch.plan)

\* the GET of one page
PageRequest(iteration, page) ==
  [date_debut_prelevement |-> iteration.date_debut_prelevement,
   date_fin_prelevement |-> iteration.date_fin_prelevement,
   max_pages |-> iteration.max_pages,
   code_parametre |-> iteration.code_parametre,
   page |-> page]

\* the configurations of ppp.naiades
FetchConfigs ==
  [date_debut : {None}, date_fin : {None},
   date_debut_nqe : {None, S("2030-01-01")},
   codes_parametre : {<<>>, <<"1105", "1107", "1200">>}]

\* date.today() with the date 3650 days before it
Clocks == {[today |-> "2026-11-06", debut_default |-> "2016-11-08"]}

\* configuration, arguments, clock and the number of pages the API holds
FetchArgs ==
  [max_pages : 1..MaxPages,
   code_parametre : {None, S("1105")},
   date_debut : {None, S("2020-01-01")},
   date_fin : {None, S("2018-06-30")},
   cfg : FetchConfigs,
   pesticide_codes : {{}, {"1506", "1105"}},
   clock : Clocks,
   available : 1..MaxAvailable]

InitFetch ==
  /\ PipelineAtRest
  /\ sigFeatures = <<>>
  /\ viewCall = NoViewCall
  /\ prevCall = NoViewCall
  /\ viewFiles = NoViewFiles
  /\ fetch = NoFetch

\* fetch_naiades_analyses_dep is called
FetchNaiadesAnalysesDep ==
  /\ fetch.op = "none"
  /\ \E a \in FetchArgs :
       fetch' = FetchStarted("fetch_naiades_analyses_dep", a,
                             FetchPlan(Windows(SplitNqe(a), a), a), <<>>)
  /\ UNCHANGED <<pipelineVars, viewVars>>

\* fetch_naiades_analyses_dep_async is called in the same configuration, with
\* the same arguments, clock and API content as the fetch that has returned
FetchNaiadesAnalysesDepAsync ==
  /\ fetch.op = "fetch_naiades_analyses_dep"
  /\ FetchReturned
  /\ fetch' = FetchStarted("fetch_naiades_analyses_dep_async", fetch.args,
                           FetchPlan(Windows(SplitNqeAsync(fetch.args), fetch.args),
                                     fetch.args),
                           fetch.requests)
  /\ UNCHANGED <<pipelineVars, viewVars>>

\* one turn of the loop of _iter_pages (_fetch_all_pages_async): the page is
\* requested; the iteration ends on a page without data or next link, or
\* when the next page number exceeds max_pages
IterPage ==
  /\ fetch.op # "none"
  /\ fetch.it <= Len(fetch.plan)
  /\ fetch' =
       [fetch EXCEPT
          !.requests = Append(@, PageRequest(fetch.plan[fetch.it], fetch.page)),
          !.page = IF fetch.page < fetch.args.available
                      /\ fetch.page + 1 <= fetch.plan[fetch.it].max_pages
                   THEN @ + 1 ELSE 1,
          !.it = IF fetch.page < fetch.args.available
                    /\ fetch.page + 1 <= fetch.plan[fetch.it].max_pages
                 THEN @ ELSE @ + 1]
  /\ UNCHANGED <<pipelineVars, viewVars>>

NextFetch == FetchNaiadesAnalysesDep \/ FetchNaiadesAnalysesDepAsync \/ IterPage

SpecFetch == InitFetch /\ [][NextFetch]_vars

\* ------------------------------------------------------------------------
\* Properties of the fetch
\* ------------------------------------------------------------------------

\* C29 (as stated): during one fetch the number of pages requested, over both
\* windows and all parameter codes, never exceeds max_pages.
C29_TotalPagesWithinMaxPages ==
  fetch.op = "fetch_naiades_analyses_dep" => Len(fetch.requests) <= fetch.args.max_pages

\* C30 (as stated): when the async fetch has returned, it has issued the
\* sequence of requests the sync fetch issued.
C30_AsyncSameRequestsAsSync ==
  (fetch.op = "fetch_naiades_analyses_dep_async" /\ FetchReturned)
    => fetch.requests = fetch.sync_requests

====
